---- MODULE Spec2Model ----
(***************************************************************************)
(* Conversation sync engine of eWorkbench: the server revision store with  *)
(* optimistic concurrency (syncRepo.ts and the conversations route), and   *)
(* the client sync agent (watcher, uploader, conflict resolver, initial    *)
(* pull, realtime channel).                                                *)
(***************************************************************************)
EXTENDS Integers, Sequences, FiniteSets, TLC

\* ------------------------------------------------------------------------
\* Bounds of the model
\* ------------------------------------------------------------------------

\* Highest revision a row reaches; a write that would pass it is not run.
MaxRev == 3

\* Changes the user makes to the local conversations (create, edit, delete).
MaxEdits == 2

\* Requests of the client that fail on the network.
MaxFailures == 1

\* Reloads of the client page.
MaxRestarts == 1

\* conversation_changed events on their way to the client.
MaxStream == 1

\* ------------------------------------------------------------------------
\* Values
\* ------------------------------------------------------------------------

\* `null` of a `number | null` revision (parseBaseRevision admits only >= 0).
NullRev == 0 - 1

\* A field that is not there (`undefined`): a number, an id.
NoTokens == 0 - 1

NoId == ""

\* The values of `data` and of the chat store, as records of one shape:
\* kind "sync" is a SyncConversation (wire format), "local" a DConversation
\* (chat store), "null" JSON null / SQL NULL, "undefined" a missing value.
\* messages is the sequence of the authors of the messages, a title a
\* sequence of words (<<>> for none).
Value(kind, id, messages, userTitle, autoTitle, tokenCount, isIncognito) ==
    [kind |-> kind, id |-> id, messages |-> messages, userTitle |-> userTitle,
     autoTitle |-> autoTitle, tokenCount |-> tokenCount, isIncognito |-> isIncognito]

Null == Value("null", NoId, <<>>, <<>>, <<>>, NoTokens, FALSE)

Undefined == Value("undefined", NoId, <<>>, <<>>, <<>>, NoTokens, FALSE)

SyncConversation(id, messages, userTitle, autoTitle) ==
    Value("sync", id, messages, userTitle, autoTitle, NoTokens, FALSE)

Users == {"u1", "u2"}

Ids == {"c1", "c2"}

\* The `data` a PUT of SpecServer may carry for a key: a conversation with
\* the key's id, one without an id, one with another id, JSON null, or none.
Blobs(key) ==
    {SyncConversation(key[2], <<"a">>, <<>>, <<>>), SyncConversation(NoId, <<"b">>, <<>>, <<>>),
     SyncConversation("zz", <<"a">>, <<>>, <<>>), Null, Undefined}

\* The key the requests of SpecServer address, under
\* one user; the rows of the other keys are there to be left alone.
ServerKeys == {<<"u1", "c1">>}

\* Request handlers that may run concurrently in SpecServer.
Slots == {1, 2}

\* ------------------------------------------------------------------------
\* Revision store (sync_conversations table, syncRepo.ts)
\* ------------------------------------------------------------------------

\* No row for the key.
AbsentRow == [present |-> FALSE, revision |-> 0, deleted |-> FALSE, data |-> Null]

\* Variant: ON CONFLICT DO UPDATE SET data = EXCLUDED.data.
InsertConversationOverwrites(row, data) ==
    IF row.present THEN [row EXCEPT !.deleted = FALSE, !.data = data]
    ELSE [present |-> TRUE, revision |-> 1, deleted |-> FALSE, data |-> data]

\* INSERT ... VALUES ($1, $2, 1, false, $3::jsonb) ON CONFLICT DO NOTHING:
\* the row after the statement.
InsertConversation(row, data) ==
    IF row.present THEN row
    ELSE [present |-> TRUE, revision |-> 1, deleted |-> FALSE, data |-> data]

\* Variant: ON CONFLICT DO UPDATE SET deleted = true, data = NULL.
InsertTombstoneOverwrites(row) ==
    IF row.present THEN [row EXCEPT !.deleted = TRUE, !.data = Null]
    ELSE [present |-> TRUE, revision |-> 1, deleted |-> TRUE, data |-> Null]

\* INSERT ... VALUES ($1, $2, 1, true, NULL) ON CONFLICT DO NOTHING.
InsertTombstone(row) ==
    IF row.present THEN row
    ELSE [present |-> TRUE, revision |-> 1, deleted |-> TRUE, data |-> Null]

\* Variant: the WHERE also matches a row that is already a tombstone.
UpdateWhereOrTombstone(row, baseRevision) ==
    row.present /\ (row.revision = baseRevision \/ row.deleted)

\* Variant: WHERE ... AND revision >= $3.
UpdateWhereAtLeast(row, baseRevision) ==
    row.present /\ row.revision >= baseRevision

\* Variant: WHERE without the revision test.
UpdateWhereAnyRevision(row, baseRevision) ==
    row.present

\* WHERE user_id = $1 AND conversation_id = $2 AND revision = $3
UpdateWhere(row, baseRevision) ==
    row.present /\ row.revision = baseRevision

\* UPDATE ... SET revision = revision + 1, deleted = false, data = $4::jsonb
UpdateConversation(row, baseRevision, data) ==
    IF UpdateWhere(row, baseRevision)
    THEN [present |-> TRUE, revision |-> row.revision + 1, deleted |-> FALSE, data |-> data]
    ELSE row

\* Variant: SET deleted = true, data = NULL without the revision bump.
UpdateTombstoneSameRevision(row, baseRevision) ==
    IF UpdateWhere(row, baseRevision)
    THEN [present |-> TRUE, revision |-> row.revision, deleted |-> TRUE, data |-> Null]
    ELSE row

\* UPDATE ... SET revision = revision + 1, deleted = true, data = NULL
UpdateTombstone(row, baseRevision) ==
    IF UpdateWhere(row, baseRevision)
    THEN [present |-> TRUE, revision |-> row.revision + 1, deleted |-> TRUE, data |-> Null]
    ELSE row

\* The single SQL statement of tryUpsertConversation / tryTombstoneConversation.
WriteStatement(op, row, baseRevision, data) ==
    IF op = "upsert"
    THEN IF baseRevision = NullRev THEN InsertConversation(row, data)
         ELSE UpdateConversation(row, baseRevision, data)
    ELSE IF baseRevision = NullRev THEN InsertTombstone(row)
         ELSE UpdateTombstone(row, baseRevision)

\* RETURNING revision: whether the statement returned a row.
StatementReturned(row, baseRevision) ==
    IF baseRevision = NullRev THEN ~row.present ELSE UpdateWhere(row, baseRevision)

NoResult == [kind |-> "none", revision |-> 0, deleted |-> FALSE]

OkResult(revision) == [kind |-> "ok", revision |-> revision, deleted |-> FALSE]

\* The result built from the follow-up getConversation() after a statement
\* that returned no row.
LookupResult(row, baseRevision) ==
    IF ~row.present
    THEN IF baseRevision = NullRev
         THEN [kind |-> "conflict", revision |-> 0, deleted |-> FALSE]
         ELSE [kind |-> "notfound", revision |-> 0, deleted |-> FALSE]
    ELSE [kind |-> "conflict", revision |-> row.revision, deleted |-> row.deleted]

\* ------------------------------------------------------------------------
\* Route handlers (app/api/sync/conversations/[conversationId]/route.ts)
\* ------------------------------------------------------------------------

\* parseBaseRevision: the request's baseRevision field is given as
\* [kind, n] with kind "undefined", "null", "number" or "other".
\* Returns [nan, value].
parseBaseRevision(value) ==
    IF value.kind = "undefined" THEN [nan |-> FALSE, undef |-> TRUE, value |-> NullRev]
    ELSE IF value.kind = "null" THEN [nan |-> FALSE, undef |-> FALSE, value |-> NullRev]
    ELSE IF value.kind = "number" /\ value.n >= 0
         THEN [nan |-> FALSE, undef |-> FALSE, value |-> value.n]
         ELSE [nan |-> TRUE, undef |-> FALSE, value |-> NullRev]

\* PUT: the checks before tryUpsertConversation. "" when the body is accepted,
\* else the 400 code.
PutRejects(body) ==
    IF parseBaseRevision(body.baseRevision).nan THEN "invalid_base_revision"
    ELSE IF body.data = Undefined THEN "missing_data"
    ELSE IF body.data.id \notin {NoId, body.conversationId} THEN "payload_id_mismatch"
    ELSE ""

\* DELETE: the checks before tryTombstoneConversation.
DeleteRejects(body) ==
    IF parseBaseRevision(body.baseRevision).nan THEN "invalid_base_revision" ELSE ""

\* ------------------------------------------------------------------------
\* Codec (chatSyncCodec.ts) and DConversation values
\* ------------------------------------------------------------------------

\* A conversation of the chat store.
DConversation(id, messages, userTitle, autoTitle, tokenCount, isIncognito) ==
    Value("local", id, messages, userTitle, autoTitle, tokenCount, isIncognito)

\* Never sync incognito conversations nor placeholder empties.
isConversationSyncEligible(c) ==
    IF c.isIncognito THEN FALSE
    ELSE LET hasMessages == c.messages # <<>>
             hasTitle == c.userTitle # <<>> \/ c.autoTitle # <<>>
         IN hasMessages \/ hasTitle

\* Drops _abortController, _isIncognito and the tokenCount caches.
sanitizeConversationForSync(c) ==
    SyncConversation(c.id, c.messages, c.userTitle, c.autoTitle)

\* Re-adds the local-only fields: tokenCount 0, _isIncognito not set.
inflateConversationFromSync(sync) ==
    DConversation(sync.id, sync.messages, sync.userTitle, sync.autoTitle, 0, FALSE)

\* The suffix and the title of makeConflictCopyPayload.
ConflictCopySuffix == <<"(conflict copy)">>

ConflictCopyTitle == <<"Conflict copy">>

\* The attempted payload under a new id with a recognisable title (created
\* and updated, set to Date.now(), are not part of the model's values).
makeConflictCopyPayload(local, newId) ==
    LET next == [local EXCEPT !.id = newId]
    IN IF next.userTitle # <<>>
       THEN [next EXCEPT !.userTitle = next.userTitle \o ConflictCopySuffix]
       ELSE IF next.autoTitle # <<>>
            THEN [next EXCEPT !.autoTitle = next.autoTitle \o ConflictCopySuffix]
            ELSE [next EXCEPT !.autoTitle = ConflictCopyTitle]

\* ------------------------------------------------------------------------
\* Client state as a record; the operators below take it and return it
\* ------------------------------------------------------------------------

NoOp == "none"

NoError == ""

\* The answer of the server to a request: kind "none" while there is none.
NoReply == [kind |-> "none", revision |-> 0, deleted |-> FALSE, data |-> Null, items |-> <<>>]

\* An HTTP exchange of the client: pc "idle", "sent" (request on its way),
\* "replied" (the server has answered, the answer is on its way), "applying"
\* (the answer is being applied); "get_sent" and "get_replied" for the GET
\* the resolver sends within tryFlush.
\* overlaps (history): the request was sent while an earlier request of the
\* same conversation was still out.
IdleCall ==
    [pc |-> "idle", what |-> "", op |-> NoOp, id |-> "", baseRevision |-> NullRev,
     data |-> Undefined, attempt |-> 0, expected |-> 0, reply |-> NoReply,
     overlaps |-> FALSE]

\* No continuation waits in the microtask queue.
NoMicro == [pc |-> "none", id |-> "", copy |-> Undefined, revision |-> 0, setRev |-> FALSE]

\* ---- store-chat-sync.ts ----

markDirty(st, id, op) == [st EXCEPT !.dirtyOpById[id] = op]

clearDirty(st, id) == [st EXCEPT !.dirtyOpById[id] = NoOp]

setRemoteRevision(st, id, revision) == [st EXCEPT !.remoteRevisionById[id] = revision]

setError(st, id, error) == [st EXCEPT !.lastErrorById[id] = error]

\* ---- mute registry (chatSyncAgent.ts) ----

\* Variant: a registry that never reports a mute.
isMutedNever(st, id) == FALSE

isMuted(st, id) == st.muteCountById[id] > 0

\* withConversationMuted up to the call of fn.
MuteEnter(st, id) == [st EXCEPT !.muteCountById[id] = @ + 1]

\* Variant: a registry with a flag in place of the counter.
MuteExitClears(st, id) == [st EXCEPT !.muteCountById[id] = 0]

\* withConversationMuted: the finally block.
MuteExit(st, id) ==
    LET next == (IF st.muteCountById[id] = 0 THEN 1 ELSE st.muteCountById[id]) - 1
    IN [st EXCEPT !.muteCountById[id] = IF next <= 0 THEN 0 ELSE next]

\* ---- uploader (chatSyncUploader.ts) ----

getBaseRevision(st, id) == st.remoteRevisionById[id]

\* Variant: an uploader that does not look at the transport's mode.
transportDisabledNever(st) == FALSE

\* transport.mode === 'disabled'
transportDisabled(st) == st.mode = "disabled"

\* Variant: an uploader without the inFlight set.
inFlightNever(st, id) == FALSE

inFlight(st, id) == st.flush[id].pc # "idle"

\* Variant: a tryFlush that sends the upsert without a payload.
tryFlushSendsEmpty(st, id) ==
    LET dirtyOp == st.dirtyOpById[id] IN
    IF inFlight(st, id) \/ dirtyOp = NoOp \/ transportDisabled(st) THEN st
    ELSE [setError(st, id, NoError) EXCEPT !.flush[id] =
             [IdleCall EXCEPT !.pc = "sent", !.what = "flush", !.op = dirtyOp, !.id = id,
                              !.baseRevision = getBaseRevision(st, id),
                              !.data = st.pendingUpsertPayloadById[id]]]

\* tryFlush up to its first await: nothing to do, the 'missing upsert payload'
\* error, or the PUT / DELETE is sent.
tryFlush(st, id) ==
    LET dirtyOp == st.dirtyOpById[id] IN
    IF inFlight(st, id) THEN st
    ELSE IF dirtyOp = NoOp THEN st
    ELSE IF transportDisabled(st) THEN st
    ELSE LET s1 == setError(st, id, NoError)
             call == [IdleCall EXCEPT !.pc = "sent", !.what = "flush", !.op = dirtyOp,
                                      !.id = id, !.baseRevision = getBaseRevision(s1, id),
                                      !.overlaps = st.flush[id].pc # "idle"]
         IN IF dirtyOp = "upsert"
            THEN IF s1.pendingUpsertPayloadById[id] = Undefined
                 THEN setError(s1, id, "missing upsert payload")
                 ELSE [s1 EXCEPT !.flush[id] =
                          [call EXCEPT !.data = s1.pendingUpsertPayloadById[id]]]
            ELSE [s1 EXCEPT !.flush[id] = call]

\* Variant: a finally block that sends again whenever the id is still dirty.
tryFlushFinallyRetries(st, id, opAtStart) ==
    LET s1 == [st EXCEPT !.flush[id] = IdleCall]
    IN IF s1.dirtyOpById[id] # NoOp THEN tryFlush(s1, id) ELSE s1

\* The finally block of tryFlush after an answer: flush again only when the
\* desired op changed while the request was out.
tryFlushFinally(st, id, opAtStart) ==
    LET s1 == [st EXCEPT !.flush[id] = IdleCall]
        opNow == s1.dirtyOpById[id]
    IN IF opNow # NoOp /\ opNow # opAtStart THEN tryFlush(s1, id) ELSE s1

uploaderQueueUpsert(st, conversation) ==
    LET id == conversation.id
        s1 == [st EXCEPT !.pendingUpsertPayloadById[id] = conversation]
    IN tryFlush(setError(markDirty(s1, id, "upsert"), id, NoError), id)

\* Variant: a queueDelete that leaves the buffered payload where it is.
uploaderQueueDeleteKeepsPayload(st, id) ==
    tryFlush(setError(markDirty(st, id, "delete"), id, NoError), id)

uploaderQueueDelete(st, id) ==
    LET s1 == [st EXCEPT !.pendingUpsertPayloadById[id] = Undefined]
    IN tryFlush(setError(markDirty(s1, id, "delete"), id, NoError), id)

\* ---- watcher (chatSyncWatcher.ts) ----

\* The debounce timer of id fired, or maxWait was exceeded.
flushIntent(st, id) ==
    LET kind == st.pending[id]
        s1 == [st EXCEPT !.pending[id] = NoOp]
        cached == s1.latestById[id]
        conversation == IF cached # Undefined THEN cached ELSE s1.conversations[id]
    IN IF kind = NoOp THEN st
       ELSE IF kind = "delete" THEN uploaderQueueDelete(s1, id)
       ELSE IF conversation = Undefined THEN s1
       ELSE IF ~isConversationSyncEligible(conversation) THEN s1
       ELSE uploaderQueueUpsert(s1, sanitizeConversationForSync(conversation))

\* maxWaitExceeded stands for remainingMaxWait === 0: the same intent has
\* been pending for maxWaitMs.
queueIntent(st, id, kind, maxWaitExceeded) ==
    LET existing == st.pending[id]
    IN IF existing = NoOp \/ existing # kind THEN [st EXCEPT !.pending[id] = kind]
       ELSE IF maxWaitExceeded THEN flushIntent(st, id)
       ELSE st

watcherQueueUpsert(st, conversation, maxWaitExceeded) ==
    IF isMuted(st, conversation.id) THEN st
    ELSE IF ~isConversationSyncEligible(conversation) THEN st
    ELSE queueIntent([st EXCEPT !.latestById[conversation.id] = conversation],
                     conversation.id, "upsert", maxWaitExceeded)

watcherQueueDelete(st, id, maxWaitExceeded) ==
    IF isMuted(st, id) THEN st
    ELSE queueIntent(st, id, "delete", maxWaitExceeded)

\* Variant: a subscriber that queues the delete of every removed id.
handleStoreChangeDeletesAll(st, id, prevConv, nextConv, maxWaitExceeded) ==
    IF prevConv # Undefined /\ nextConv = Undefined
    THEN watcherQueueDelete(st, id, maxWaitExceeded)
    ELSE IF nextConv = Undefined \/ ~isConversationSyncEligible(nextConv) THEN st
    ELSE watcherQueueUpsert(st, nextConv, maxWaitExceeded)

\* The store subscriber, for the conversation id whose entry changed from
\* prevConv to nextConv (Undefined: not in the list).
handleStoreChange(st, id, prevConv, nextConv, maxWaitExceeded) ==
    IF prevConv # Undefined /\ nextConv = Undefined
    THEN IF isMuted(st, id) THEN st
         ELSE IF ~isConversationSyncEligible(prevConv) THEN st
         ELSE watcherQueueDelete(st, id, maxWaitExceeded)
    ELSE IF nextConv = Undefined THEN st
    ELSE IF isMuted(st, id) THEN st
    ELSE IF prevConv = Undefined
         THEN IF isConversationSyncEligible(nextConv)
              THEN watcherQueueUpsert(st, nextConv, maxWaitExceeded)
              ELSE st
    ELSE LET prevEligible == isConversationSyncEligible(prevConv)
             nextEligible == isConversationSyncEligible(nextConv)
         IN IF prevEligible /\ ~nextEligible THEN watcherQueueDelete(st, id, maxWaitExceeded)
            ELSE IF nextEligible THEN watcherQueueUpsert(st, nextConv, maxWaitExceeded)
            ELSE st

\* The subscriber for an id whose object may be the same in prev and next
\* (prevConv !== nextConv is false): nothing is queued for it then.
handleStoreChangeOf(st, id, prevConv, nextConv, sameReference) ==
    IF prevConv # Undefined /\ nextConv # Undefined /\ sameReference THEN st
    ELSE handleStoreChange(st, id, prevConv, nextConv, FALSE)

\* ---- chat store (store-chats): set() and the call of the subscriber ----

\* importConversation(conversation, false): the conversation replaces the one
\* of its id or is added.
importConversation(st, conversation) ==
    LET prevConv == st.conversations[conversation.id]
    IN handleStoreChange([st EXCEPT !.conversations[conversation.id] = conversation],
                         conversation.id, prevConv, conversation, FALSE)

\* deleteConversations([id]).
deleteConversations(st, id) ==
    LET prevConv == st.conversations[id]
    IN handleStoreChange([st EXCEPT !.conversations[id] = Undefined],
                         id, prevConv, Undefined, FALSE)

\* The remote state applied to the local store, as written in the resolver,
\* the initial pull and the realtime channel: a tombstone (or no data)
\* deletes the local conversation if there is one, a blob is imported.
applyRemoteToStore(st, id, deleted, data) ==
    IF deleted \/ data = Null
    THEN IF st.conversations[id] # Undefined THEN deleteConversations(st, id) ELSE st
    ELSE importConversation(st, inflateConversationFromSync(data))

\* ------------------------------------------------------------------------
\* State
\* ------------------------------------------------------------------------

VARIABLES
    rows,       \* sync_conversations: [Users \X Ids -> row]
    updatedOrder, \* the ids of the client's user by updated_at, latest first
    reqs,       \* SpecServer: the write requests being handled, by handler
    raced,      \* SpecServer, history: pairs of handlers whose writes raced
    registry,   \* notifier: [Users -> subscribers in the order of their Set]
    notified,   \* what the last step published, and its response status
    stream,     \* events of /api/sync/events on their way to the client
    conversations,            \* chat store: [Ids -> DConversation or Undefined]
    remoteRevisionById,       \* sync store (NullRev: no entry)
    dirtyOpById,              \* sync store (NoOp: no entry)
    lastErrorById,            \* sync store (NoError: no entry)
    pendingUpsertPayloadById, \* uploader
    flush,                    \* uploader: the exchange of tryFlush(id); inFlight
    mode,                     \* switchable transport: "disabled" or "http"
    pending,                  \* watcher: kind of the pending intent
    latestById,               \* watcher
    muteCountById,            \* agent: mute registry
    micro,                    \* the continuation waiting in the microtask queue
    pull,                     \* agent: initialPullAndApplyRemote
    drain,                    \* realtime: the GET of applyRemoteUpsertByGet
    pendingById,              \* realtime: coalesced entries, in Map order
    drainInFlight,            \* realtime
    drainAgain,               \* realtime
    realtime,                 \* realtime: the EventSource is connected
    stopped,                  \* agent: stop() was called
    obtained,                 \* history: revisions the client wrote or applied
    dropped,                  \* history: dirty upserts the last reconcile dropped
    edits, failures, restarts, \* counted against the bounds
    singletonStopAgent,       \* SpecLifecycle: the agent whose stop function it holds, or 0
    agents,                   \* SpecLifecycle: the agents startChatSyncAgent has created
    handles,                  \* SpecLifecycle: the stop functions the callers hold
    sse,                      \* SpecEvents: the streams of /api/sync/events, by subscriber
    idcheck,                  \* SpecValidation: the request whose conversationId is checked
    listed,                   \* SpecPartition: the last answer of GET /api/sync/conversations
    muting,                   \* SpecMute: the withConversationMuted calls that have not ended, by id
    watch,                    \* SpecWatcher: the watcher's pending entries and timers, with the clock
    change,                   \* SpecChange: the last store change the subscriber was called with
    tried                     \* SpecTryFlush: the last call of tryFlush, what it found and left

serverVars == <<reqs, raced, registry, notified>>

clientVars ==
    <<updatedOrder, stream, conversations, remoteRevisionById, dirtyOpById, lastErrorById,
      pendingUpsertPayloadById, flush, mode, pending, latestById, muteCountById,
      micro, pull, drain, pendingById, drainInFlight, drainAgain, realtime, stopped,
      obtained, dropped, edits, failures, restarts>>

lifecycleVars == <<singletonStopAgent, agents, handles>>

\* The state of the specifications of single units.
unitVars == <<muting, watch, change, tried>>

vars == <<rows, serverVars, clientVars, lifecycleVars, sse, idcheck, listed, unitVars>>

\* The client's state as the record the operators work on.
Cur ==
    [conversations |-> conversations, remoteRevisionById |-> remoteRevisionById,
     dirtyOpById |-> dirtyOpById, lastErrorById |-> lastErrorById,
     pendingUpsertPayloadById |-> pendingUpsertPayloadById, flush |-> flush,
     mode |-> mode, pending |-> pending, latestById |-> latestById,
     muteCountById |-> muteCountById, micro |-> micro, pull |-> pull, drain |-> drain,
     pendingById |-> pendingById, drainInFlight |-> drainInFlight,
     drainAgain |-> drainAgain, realtime |-> realtime, obtained |-> obtained, dropped |-> dropped, stopped |-> stopped]

\* The record becomes the next state.
Commit(st) ==
    /\ conversations' = st.conversations
    /\ remoteRevisionById' = st.remoteRevisionById
    /\ dirtyOpById' = st.dirtyOpById
    /\ lastErrorById' = st.lastErrorById
    /\ pendingUpsertPayloadById' = st.pendingUpsertPayloadById
    /\ flush' = st.flush
    /\ mode' = st.mode
    /\ pending' = st.pending
    /\ latestById' = st.latestById
    /\ muteCountById' = st.muteCountById
    /\ micro' = st.micro
    /\ pull' = st.pull
    /\ drain' = st.drain
    /\ pendingById' = st.pendingById
    /\ drainInFlight' = st.drainInFlight
    /\ drainAgain' = st.drainAgain
    /\ realtime' = st.realtime
    /\ stopped' = st.stopped
    /\ obtained' = st.obtained
    /\ dropped' = st.dropped

\* The client is user u1.
Me == "u1"

IdleReq ==
    [pc |-> "idle", op |-> "upsert", key |-> <<"u1", "c1">>, baseRevision |-> NullRev,
     data |-> Null, result |-> NoResult]

\* The baseRevision fields a request body may carry.
BaseRevisionInputs ==
    {[kind |-> "undefined", n |-> 0], [kind |-> "null", n |-> 0], [kind |-> "other", n |-> 0]}
    \cup {[kind |-> "number", n |-> n] : n \in 0..MaxRev}

\* The bodies of PUT requests.
PutBodies(key) ==
    {[conversationId |-> key[2], baseRevision |-> b, data |-> d] :
        b \in BaseRevisionInputs, d \in Blobs(key)}

DeleteBodies(key) ==
    {[conversationId |-> key[2], baseRevision |-> b] : b \in BaseRevisionInputs}

\* The agent right after startChatSyncAgent() on a hydrated, empty store:
\* the watcher runs, the transport is disabled and the metadata list of
\* the initial pull is requested.
StartedPull(prevRemoteRevisionById) ==
    [pc |-> "list_sent", items |-> <<>>, idx |-> 0, hadLocal |-> FALSE,
     prev |-> prevRemoteRevisionById, reply |-> NoReply]

\* initialPullAndApplyRemote has returned; its locals are gone.
FinishedPull == [StartedPull([id \in Ids |-> NullRev]) EXCEPT !.pc = "done"]

InitClient ==
    /\ updatedOrder = <<>>
    /\ stream = <<>>
    /\ conversations = [id \in Ids |-> Undefined]
    /\ remoteRevisionById = [id \in Ids |-> NullRev]
    /\ dirtyOpById = [id \in Ids |-> NoOp]
    /\ lastErrorById = [id \in Ids |-> NoError]
    /\ pendingUpsertPayloadById = [id \in Ids |-> Undefined]
    /\ flush = [id \in Ids |-> IdleCall]
    /\ mode = "disabled"
    /\ pending = [id \in Ids |-> NoOp]
    /\ latestById = [id \in Ids |-> Undefined]
    /\ muteCountById = [id \in Ids |-> 0]
    /\ micro = NoMicro
    /\ pull = StartedPull([id \in Ids |-> NullRev])
    /\ drain = IdleCall
    /\ pendingById = <<>>
    /\ drainInFlight = FALSE
    /\ drainAgain = FALSE
    /\ realtime = FALSE
    /\ stopped = FALSE
    /\ obtained = [id \in Ids |-> {}]
    /\ dropped = {}
    /\ edits = 0
    /\ failures = 0
    /\ restarts = 0

\* ---- the agent singleton (chatSyncAgent.ts) ----

\* Agents a process may create.
MaxAgents == 4

Agents == 1..MaxAgents

\* watcher: stopWatcher is set; realtime: stopRealtime is set; pull: "none",
\* "running" (initialPullAndApplyRemote has not returned) or "returned".
NoAgent ==
    [created |-> FALSE, stopped |-> FALSE, watcher |-> FALSE, pull |-> "none",
     realtime |-> FALSE]

\* No call of startChatSyncAgent yet.
InitLifecycle ==
    /\ singletonStopAgent = 0
    /\ agents = [n \in Agents |-> NoAgent]
    /\ handles = {}

\* startChatSyncAgent() on a hydrated store: the running agent's stop
\* function if singletonStopAgent is set, else a new agent whose watcher and
\* initial pull start, and its stop function.
StartAgent ==
    IF singletonStopAgent # 0
    THEN /\ handles' = handles \cup {singletonStopAgent}
         /\ UNCHANGED <<singletonStopAgent, agents>>
    ELSE /\ \E n \in Agents :
              /\ ~agents[n].created
              /\ \A m \in 1..(n - 1) : agents[m].created
              /\ agents' = [agents EXCEPT ![n] =
                     [created |-> TRUE, stopped |-> FALSE, watcher |-> TRUE,
                      pull |-> "running", realtime |-> FALSE]]
              /\ singletonStopAgent' = n
              /\ handles' = handles \cup {n}

\* A caller calls the stop function of agent n.
StopAgent(n) ==
    /\ n \in handles
    /\ agents' = [agents EXCEPT ![n] =
           [@ EXCEPT !.stopped = TRUE, !.watcher = FALSE, !.realtime = FALSE]]
    /\ singletonStopAgent' = 0
    /\ UNCHANGED handles

\* initialPullAndApplyRemote of agent n returns: startRealtimeAfterInit
\* unless the agent is stopped.
PullReturns(n) ==
    /\ agents[n].pull = "running"
    /\ agents' = [agents EXCEPT ![n] =
           [@ EXCEPT !.pull = "returned", !.realtime = ~agents[n].stopped]]
    /\ UNCHANGED <<singletonStopAgent, handles>>

LifecycleStep ==
    \/ StartAgent
    \/ \E n \in Agents : StopAgent(n)
    \/ \E n \in Agents : PullReturns(n)

NextLifecycle == LifecycleStep /\ UNCHANGED <<rows, serverVars, clientVars, sse, idcheck, listed, unitVars>>

\* ---- the notifier (syncNotifier.ts) ----

\* The streams of /api/sync/events that may subscribe, and their users.
Subs == {"s1", "s2", "s3"}

SubscriberUser(sub) == IF sub = "s3" THEN "u2" ELSE "u1"

Range(seq) == {seq[i] : i \in 1..Len(seq)}

\* No publish in the last step.
NoNotice ==
    [user |-> "", conversationId |-> "", revision |-> 0, deleted |-> FALSE,
     calls |-> <<>>, throwers |-> {}, status |-> 0]

IsSubscribed(reg, sub) == sub \in Range(reg[SubscriberUser(sub)])

\* subscribeSyncRealtime: set.add(fn).
subscribeSyncRealtime(reg, userId, sub) ==
    IF sub \in Range(reg[userId]) THEN reg
    ELSE [reg EXCEPT ![userId] = Append(@, sub)]

\* The function subscribeSyncRealtime returns: current.delete(fn).
unsubscribeSyncRealtime(reg, userId, sub) ==
    [reg EXCEPT ![userId] = SelectSeq(@, LAMBDA x : x # sub)]

\* Variant: the event goes to the subscribers of every user.
publishSyncRealtimeToAll(reg, userId, throwers) ==
    [calls |-> reg["u1"] \o reg["u2"], threw |-> FALSE]

\* Variant: the loop without try / catch.
publishSyncRealtimeNoCatch(reg, userId, throwers) ==
    LET set == reg[userId]
        first == IF \E i \in 1..Len(set) : set[i] \in throwers
                 THEN CHOOSE i \in 1..Len(set) :
                          /\ set[i] \in throwers
                          /\ \A j \in 1..(i - 1) : set[j] \notin throwers
                 ELSE Len(set)
    IN [calls |-> SubSeq(set, 1, first),
        threw |-> \E i \in 1..Len(set) : set[i] \in throwers]

\* publishSyncRealtime: the callbacks called, in order, and whether the call
\* threw. Every callback of the user's set is called inside try / catch.
publishSyncRealtime(reg, userId, throwers) ==
    [calls |-> reg[userId], threw |-> FALSE]

publishConversationChanged(reg, userId, throwers) ==
    publishSyncRealtime(reg, userId, throwers)

\* The status of the response (the handler's result.ok / conflict / notfound
\* branches and badRequest()).
HttpStatus(result) ==
    CASE result.kind = "ok" -> 200
      [] result.kind = "row" -> 200
      [] result.kind = "conflict" -> 409
      [] result.kind = "notfound" -> 404
      [] result.kind = "badrequest" -> 400
      [] OTHER -> 0

\* Variant: a GET that answers the metadata only.
GetReplyWithoutData(row) ==
    IF ~row.present THEN [NoReply EXCEPT !.kind = "notfound"]
    ELSE [NoReply EXCEPT !.kind = "ok", !.revision = row.revision, !.deleted = row.deleted]

\* GET /api/sync/conversations/:id.
GetReply(row) ==
    IF ~row.present THEN [NoReply EXCEPT !.kind = "notfound"]
    ELSE [NoReply EXCEPT !.kind = "ok", !.revision = row.revision, !.deleted = row.deleted,
                         !.data = IF row.deleted THEN Null ELSE row.data]

\* No answer of the list route yet.
NoList == [user |-> "", items |-> {}]

\* ---- conversationId validation (syncValidation.ts, securityConfig.ts) ----

\* The request being checked: the process (off until it read its
\* environment), the configured limit, the route, the id, and what became of
\* the request.
NoCheck ==
    [pc |-> "off", maxLen |-> 0, method |-> "", id |-> <<>>, status |-> 0,
     rejected |-> FALSE, accessed |-> FALSE, published |-> FALSE]

InitValidation == idcheck = NoCheck

\* The closure of one GET: closed, the unsubscribe function (held or null),
\* the timers (0: null, else the time they are due), the abort listener, what
\* was enqueued on the controller, the controller, calls of controller.close()
\* that closed it, and the age of the request.
NoStream ==
    [started |-> FALSE, closed |-> FALSE, unsubscribe |-> FALSE, pingHandle |-> 0,
     ttlHandle |-> 0, abortHandler |-> FALSE, out |-> <<>>, controller |-> "none",
     closeCalls |-> 0, aborted |-> FALSE, age |-> 0]

InitEvents == sse = [sub \in Subs |-> NoStream]

\* ---- the mute registry on its own ----

\* Calls of withConversationMuted on one id that overlap.
MaxNest == 4

\* No call of withConversationMuted is open.
NoCalls == [open |-> 0, last |-> "none"]

InitMute == muting = [id \in Ids |-> NoCalls]

\* ---- the watcher's timers on their own ----

\* debounceMs and maxWaitMs, in ticks of the model's clock.
DebounceTicks == 2

MaxWaitTicks == 3

\* The last tick of the clock, and the mutations the watcher observes.
MaxNow == 6

MaxMutations == 4

\* No entry in `pending` (timer 0: none).
NoEntry == [kind |-> "none", timer |-> 0, firstQueuedAt |-> 0]

\* Nothing was handed to the uploader yet.
NoHandOff == [id |-> "", kind |-> "none", at |-> 0, firstQueuedAt |-> 0, seen |-> 0]

InitWatch ==
    watch = [now |-> 0, pending |-> [id \in Ids |-> NoEntry], timers |-> {},
             made |-> 0, seen |-> [id \in Ids |-> 0], handed |-> NoHandOff]

\* ---- the store subscriber on its own ----

\* The subscriber was not called yet.
NoChange ==
    [prev |-> Undefined, next |-> Undefined, sameReference |-> FALSE, muted |-> FALSE,
     prior |-> NoOp, pending |-> NoOp, latest |-> Undefined, called |-> FALSE]

InitChange == change = NoChange

\* ---- tryFlush on its own ----

\* tryFlush was not called yet.
NoTry ==
    [called |-> FALSE, dirtyOp |-> NoOp, mode |-> "disabled", payload |-> Undefined,
     inFlight |-> FALSE, remoteRevision |-> NullRev, lastError |-> NoError,
     pc |-> "idle", op |-> NoOp,
     error |-> NoError, dirtyAfter |-> NoOp, revisionAfter |-> NullRev]

InitTried == tried = NoTry

InitServer ==
    /\ rows = [k \in Users \X Ids |-> AbsentRow]
    /\ reqs = [s \in Slots |-> IdleReq]
    /\ raced = {}
    /\ registry = [u \in Users |-> <<>>]
    /\ notified = NoNotice
    /\ InitClient
    /\ InitLifecycle
    /\ InitEvents
    /\ InitValidation
    /\ listed = NoList
    /\ InitMute
    /\ InitWatch
    /\ InitChange
    /\ InitTried

\* A free handler takes the next request (the lowest free one: handlers are
\* interchangeable).
CanArrive(s) ==
    /\ reqs[s].pc = "idle"
    /\ \A t \in Slots : t < s => reqs[t].pc # "idle"

Rejected(op, key, code) ==
    [pc |-> "done", op |-> op, key |-> key, baseRevision |-> NullRev, data |-> Null,
     result |-> [kind |-> code, revision |-> 0, deleted |-> FALSE]]

\* PUT of the user and conversation of key, up to the call of
\* tryUpsertConversation.
PutArrivesOn(s, key) ==
    /\ CanArrive(s)
    /\ \E body \in PutBodies(key) :
        reqs' = [reqs EXCEPT ![s] =
            IF PutRejects(body) # "" THEN Rejected("upsert", key, "badrequest")
            ELSE [pc |-> "stmt", op |-> "upsert", key |-> key,
                  baseRevision |-> parseBaseRevision(body.baseRevision).value,
                  data |-> body.data, result |-> NoResult]]
    /\ UNCHANGED <<rows, registry>>
    /\ notified' = NoNotice

PutArrives(s) == \E key \in ServerKeys : PutArrivesOn(s, key)

\* DELETE up to the call of tryTombstoneConversation.
DeleteArrivesOn(s, key) ==
    /\ CanArrive(s)
    /\ \E body \in DeleteBodies(key) :
        reqs' = [reqs EXCEPT ![s] =
            IF DeleteRejects(body) # "" THEN Rejected("delete", key, "badrequest")
            ELSE [pc |-> "stmt", op |-> "delete", key |-> key,
                  baseRevision |-> parseBaseRevision(body.baseRevision).value,
                  data |-> Null, result |-> NoResult]]
    /\ UNCHANGED <<rows, registry>>
    /\ notified' = NoNotice

DeleteArrives(s) == \E key \in ServerKeys : DeleteArrivesOn(s, key)

\* GET up to the call of getConversation.
GetArrivesOn(s, key) ==
    /\ CanArrive(s)
    /\ reqs' = [reqs EXCEPT ![s] =
            [pc |-> "select", op |-> "get", key |-> key, baseRevision |-> NullRev,
             data |-> Null, result |-> NoResult]]
    /\ UNCHANGED <<rows, registry>>
    /\ notified' = NoNotice

GetArrives(s) == \E key \in ServerKeys : GetArrivesOn(s, key)

\* Variant: a statement that finds the row by conversation_id alone.
WhereConversationOnly(rws, key) ==
    IF \E u \in Users : rws[<<u, key[2]>>].present
    THEN rws[<<CHOOSE u \in Users : rws[<<u, key[2]>>].present, key[2]>>]
    ELSE rws[key]

\* WHERE user_id = $1 AND conversation_id = $2: the row a statement sees.
Where(rws, key) == rws[key]

\* Variant: a list WHERE user_id = $1 AND NOT deleted.
listConversationMetasLiveOnly(rws, userId) ==
    {[conversationId |-> id, revision |-> rws[<<userId, id>>].revision,
      deleted |-> rws[<<userId, id>>].deleted] :
        id \in {i \in Ids : rws[<<userId, i>>].present /\ ~rws[<<userId, i>>].deleted}}

\* listConversationMetas(userId): the rows WHERE user_id = $1 (their order,
\* by updated_at, is modelled for the client's user by updatedOrder).
listConversationMetas(rws, userId) ==
    {[conversationId |-> id, revision |-> rws[<<userId, id>>].revision,
      deleted |-> rws[<<userId, id>>].deleted] :
        id \in {i \in Ids : rws[<<userId, i>>].present}}

\* The SELECT of getConversation runs and the GET handler builds its body:
\* notFound() without a row, else revision, deleted and data of the row
\* (result kind "row"; the body's data is kept in the data field).
RunSelect(s) ==
    /\ reqs[s].pc = "select"
    /\ LET reply == GetReply(Where(rows, reqs[s].key))
       IN reqs' = [reqs EXCEPT ![s] =
              [@ EXCEPT !.pc = "done", !.data = reply.data,
                        !.result = [kind |-> IF reply.kind = "ok" THEN "row" ELSE "notfound",
                                    revision |-> reply.revision,
                                    deleted |-> reply.deleted]]]
    /\ UNCHANGED <<rows, registry>>
    /\ notified' = NoNotice

\* The statement of tryUpsertConversation / tryTombstoneConversation runs.
RunStatement(s) ==
    /\ reqs[s].pc = "stmt"
    /\ LET r == reqs[s]
           row == Where(rows, r.key)
           after == WriteStatement(r.op, row, r.baseRevision, r.data)
       IN /\ after.revision <= MaxRev
          /\ rows' = [rows EXCEPT ![r.key] = after]
          /\ reqs' = [reqs EXCEPT ![s] =
                 IF StatementReturned(row, r.baseRevision)
                 THEN [r EXCEPT !.pc = "done", !.data = Null,
                                !.result = OkResult(after.revision)]
                 ELSE [r EXCEPT !.pc = "lookup", !.data = Null]]
    /\ UNCHANGED registry
    /\ notified' = NoNotice

\* No row was returned: getConversation() and the conflict / notfound result.
RunLookup(s) ==
    /\ reqs[s].pc = "lookup"
    /\ reqs' = [reqs EXCEPT ![s] =
           [@ EXCEPT !.pc = "done",
                     !.result = LookupResult(Where(rows, reqs[s].key),
                                             reqs[s].baseRevision)]]
    /\ UNCHANGED <<rows, registry>>
    /\ notified' = NoNotice

\* The handler's continuation after its repository call: an accepted write
\* publishes conversation_changed to the subscribers of the user (any of
\* their callbacks may throw), the response leaves (500 from the handler's
\* catch when the publish threw) and the handler is free again.
Respond(s) ==
    /\ reqs[s].pc = "done"
    /\ reqs' = [reqs EXCEPT ![s] = IdleReq]
    /\ UNCHANGED <<rows, registry>>
    /\ IF reqs[s].result.kind = "ok"
       THEN \E throwers \in SUBSET Range(registry[reqs[s].key[1]]) :
               LET p == publishConversationChanged(registry, reqs[s].key[1], throwers)
               IN notified' =
                      [user |-> reqs[s].key[1], conversationId |-> reqs[s].key[2],
                       revision |-> reqs[s].result.revision,
                       deleted |-> reqs[s].op = "delete",
                       calls |-> p.calls, throwers |-> throwers,
                       status |-> IF p.threw THEN 500 ELSE HttpStatus(reqs[s].result)]
       ELSE notified' = [NoNotice EXCEPT !.status = HttpStatus(reqs[s].result)]

\* GET /api/sync/events: the stream of a client starts and subscribes.
Subscribe(sub) ==
    /\ ~IsSubscribed(registry, sub)
    /\ registry' = subscribeSyncRealtime(registry, SubscriberUser(sub), sub)
    /\ notified' = NoNotice
    /\ UNCHANGED <<rows, reqs>>

\* The stream of a client closes: the function subscribeSyncRealtime gave.
Unsubscribe(sub) ==
    /\ IsSubscribed(registry, sub)
    /\ registry' = unsubscribeSyncRealtime(registry, SubscriberUser(sub), sub)
    /\ notified' = NoNotice
    /\ UNCHANGED <<rows, reqs>>

\* baseRevision names the row as it is now: null for no row, else its revision.
BaseCurrent(row, baseRevision) ==
    IF baseRevision = NullRev THEN ~row.present
    ELSE row.present /\ row.revision = baseRevision

\* History: s and t race when both are about to run their statement on the
\* same key with the same baseRevision, and that baseRevision is current.
Racing(rq, rw, s, t) ==
    /\ s # t
    /\ rq[s].pc = "stmt" /\ rq[t].pc = "stmt"
    /\ rq[s].key = rq[t].key
    /\ rq[s].baseRevision = rq[t].baseRevision
    /\ BaseCurrent(rw[rq[s].key], rq[s].baseRevision)

\* The pairs that raced, among the requests still held by a handler.
RacedAfter ==
    {p \in raced : reqs'[p[1]].pc # "idle" /\ reqs'[p[2]].pc # "idle"}
    \cup {p \in Slots \X Slots : Racing(reqs', rows', p[1], p[2])}

ServerStep ==
    \/ \E s \in Slots : PutArrives(s)
    \/ \E s \in Slots : DeleteArrives(s)
    \/ \E s \in Slots : GetArrives(s)
    \/ \E s \in Slots : RunStatement(s)
    \/ \E s \in Slots : RunSelect(s)
    \/ \E s \in Slots : RunLookup(s)
    \/ \E s \in Slots : Respond(s)

NextServer ==
    ServerStep /\ raced' = RacedAfter /\ UNCHANGED <<clientVars, lifecycleVars, sse, idcheck, listed, unitVars>>

SpecServer == InitServer /\ [][NextServer]_vars

SpecLifecycle == InitServer /\ [][NextLifecycle]_vars

\* The server with event streams: one handler at a time takes the writes,
\* while the streams of /api/sync/events subscribe and close.
NotifierStep ==
    \/ PutArrives(1)
    \/ DeleteArrives(1)
    \/ GetArrives(1)
    \/ RunStatement(1)
    \/ RunLookup(1)
    \/ RunSelect(1)
    \/ Respond(1)
    \/ \E sub \in Subs : Subscribe(sub)
    \/ \E sub \in Subs : Unsubscribe(sub)

NextNotifier ==
    NotifierStep /\ raced' = RacedAfter /\ UNCHANGED <<clientVars, lifecycleVars, sse, idcheck, listed, unitVars>>

SpecNotifier == InitServer /\ [][NextNotifier]_vars

\* ---- the event stream (app/api/sync/events/route.ts) ----

\* PING_MS and TTL_MS, in steps of 5 s of the event loop's clock.
PingTicks == 5

TtlTicks == 12

\* Events the model lets one stream carry, to keep its output finite.
MaxEvents == 1

\* The requests of GET /api/sync/events the model follows: one of each user.
EventSubs == {"s1", "s3"}

\* sendRaw: nothing once closed, else controller.enqueue.
sendRaw(st, text) == IF st.closed THEN st ELSE [st EXCEPT !.out = Append(@, text)]

\* sendEvent(eventName, payload): the SSE event of that name.
sendEvent(st, eventName) == sendRaw(st, eventName)

\* Variant: a close that leaves the subscription in the registry.
closeKeepsSubscription(reg, st, sub) ==
    IF st.closed THEN [reg |-> reg, st |-> st]
    ELSE [reg |-> reg,
          st |-> [st EXCEPT !.closed = TRUE, !.unsubscribe = FALSE, !.pingHandle = 0,
                            !.ttlHandle = 0, !.abortHandler = FALSE,
                            !.controller = "closed",
                            !.closeCalls = IF st.controller = "readable" THEN @ + 1 ELSE @]]

\* close(controller): once; unsubscribes, clears both timers, removes the
\* abort listener, closes the controller.
close(reg, st, sub) ==
    IF st.closed THEN [reg |-> reg, st |-> st]
    ELSE [reg |-> IF st.unsubscribe
                  THEN unsubscribeSyncRealtime(reg, SubscriberUser(sub), sub) ELSE reg,
          st |-> [st EXCEPT !.closed = TRUE, !.unsubscribe = FALSE, !.pingHandle = 0,
                            !.ttlHandle = 0, !.abortHandler = FALSE,
                            !.controller = "closed",
                            !.closeCalls = IF st.controller = "readable" THEN @ + 1 ELSE @]]

\* start(controller): the retry hint, the ready event, the subscription, the
\* two timers and the abort listener.
Connect(sub) ==
    /\ ~sse[sub].started
    /\ LET s1 == sendRaw([NoStream EXCEPT !.started = TRUE, !.controller = "readable"],
                         "retry")
           s2 == sendEvent(s1, "ready")
       IN sse' = [sse EXCEPT ![sub] =
                     [s2 EXCEPT !.unsubscribe = TRUE, !.pingHandle = PingTicks,
                                !.ttlHandle = TtlTicks, !.abortHandler = TRUE]]
    /\ registry' = subscribeSyncRealtime(registry, SubscriberUser(sub), sub)

\* The interval of the keepalive ping fires.
PingFires(sub) ==
    /\ sse[sub].pingHandle # 0 /\ sse[sub].age = sse[sub].pingHandle
    /\ sse' = [sse EXCEPT ![sub] =
                  [sendEvent(sse[sub], "ping") EXCEPT !.pingHandle = @ + PingTicks]]
    /\ UNCHANGED registry

\* The TTL timeout fires: the close event, then close(controller).
TtlFires(sub) ==
    /\ sse[sub].ttlHandle # 0 /\ sse[sub].age = sse[sub].ttlHandle
    /\ LET c == close(registry, sendEvent(sse[sub], "close"), sub)
       IN sse' = [sse EXCEPT ![sub] = c.st] /\ registry' = c.reg

\* The abort event of req.signal: the listener, if it is still there.
Abort(sub) ==
    /\ sse[sub].started /\ ~sse[sub].aborted
    /\ LET s1 == [sse[sub] EXCEPT !.aborted = TRUE]
           c == IF s1.abortHandler THEN close(registry, s1, sub)
                ELSE [reg |-> registry, st |-> s1]
       IN sse' = [sse EXCEPT ![sub] = c.st] /\ registry' = c.reg

\* cancel(): the consumer cancels the stream while it is readable.
Cancel(sub) ==
    /\ sse[sub].controller = "readable"
    /\ sse' = [sse EXCEPT ![sub] =
                  [@ EXCEPT !.closed = TRUE, !.unsubscribe = FALSE, !.pingHandle = 0,
                            !.ttlHandle = 0, !.abortHandler = FALSE,
                            !.controller = "cancelled"]]
    /\ registry' = IF sse[sub].unsubscribe
                   THEN unsubscribeSyncRealtime(registry, SubscriberUser(sub), sub)
                   ELSE registry

\* An accepted write of the user is published: the callback of every stream
\* in the user's set sends the event.
PublishEvent(userId) ==
    /\ \E sub \in Range(registry[userId]) : Len(sse[sub].out) < 2 + MaxEvents + 2
    /\ LET p == publishConversationChanged(registry, userId, {})
       IN sse' = [sub \in Subs |->
                     IF sub \in Range(p.calls)
                     THEN sendEvent(sse[sub], "conversation_changed") ELSE sse[sub]]
    /\ UNCHANGED registry

\* Time passes for the open streams; a timer that is due fires first.
Tick ==
    /\ \E sub \in Subs : sse[sub].started /\ ~sse[sub].closed
    /\ \A sub \in Subs :
          /\ sse[sub].pingHandle # 0 => sse[sub].age < sse[sub].pingHandle
          /\ sse[sub].ttlHandle # 0 => sse[sub].age < sse[sub].ttlHandle
          /\ sse[sub].age <= TtlTicks
    /\ sse' = [sub \in Subs |->
                  IF sse[sub].started /\ ~sse[sub].closed
                  THEN [sse[sub] EXCEPT !.age = @ + 1] ELSE sse[sub]]
    /\ UNCHANGED registry

EventsStep ==
    \/ \E sub \in EventSubs : Connect(sub)
    \/ \E sub \in EventSubs : PingFires(sub)
    \/ \E sub \in EventSubs : TtlFires(sub)
    \/ \E sub \in EventSubs : Abort(sub)
    \/ \E sub \in EventSubs : Cancel(sub)
    \/ \E userId \in Users : PublishEvent(userId)
    \/ Tick

NextEvents ==
    EventsStep
    /\ UNCHANGED <<rows, reqs, raced, notified, clientVars, lifecycleVars, idcheck, listed, unitVars>>

SpecEvents == InitServer /\ [][NextEvents]_vars

\* ---- two users on one server ----

\* The keys the requests of SpecPartition address: the same conversationId
\* under either user.
PartitionKeys == {<<"u1", "c1">>, <<"u2", "c1">>}

\* GET /api/sync/conversations of userId: the list of the user's rows.
ListRuns(userId) ==
    /\ listed' = [user |-> userId, items |-> listConversationMetas(rows, userId)]
    /\ listed' # listed
    /\ notified' = NoNotice
    /\ UNCHANGED <<rows, reqs, registry>>

PartitionStep ==
    \/ \E key \in PartitionKeys : PutArrivesOn(1, key)
    \/ \E key \in PartitionKeys : DeleteArrivesOn(1, key)
    \/ \E key \in PartitionKeys : GetArrivesOn(1, key)
    \/ RunStatement(1)
    \/ RunLookup(1)
    \/ RunSelect(1)
    \/ Respond(1)
    \/ \E sub \in EventSubs : Subscribe(sub)
    \/ \E sub \in EventSubs : Unsubscribe(sub)

NextPartition ==
    /\ \/ PartitionStep /\ listed' = NoList
       \/ \E userId \in Users : ListRuns(userId)
    /\ raced' = RacedAfter
    /\ UNCHANGED <<clientVars, lifecycleVars, sse, idcheck, unitVars>>

SpecPartition == InitServer /\ [][NextPartition]_vars

\* ---- conversationId validation: the routes ----

\* The default of EW_SYNC_CONVERSATION_ID_MAX_LEN.
DefaultMaxLen == 128

\* Values the environment variable may hold ("": not set, or empty).
EnvValues == {"", "-1", "0", "64", "128", "129", "64.5", "many"}

\* Number(raw), when it is finite, and its Math.floor.
EnvNumbers ==
    [finite |-> {"-1", "0", "64", "128", "129", "64.5"},
     floor |-> [raw \in EnvValues |->
                  CASE raw = "-1" -> 0 - 1
                    [] raw = "0" -> 0
                    [] raw \in {"64", "64.5"} -> 64
                    [] raw = "128" -> 128
                    [] raw = "129" -> 129
                    [] OTHER -> 0]]

\* envInt(name, def).
envInt(raw, def) ==
    IF raw = "" THEN def
    ELSE IF raw \in EnvNumbers.finite /\ EnvNumbers.floor[raw] >= 0
    THEN EnvNumbers.floor[raw] ELSE def

\* Characters of a conversationId: some SAFE_ID_RE matches, some it does not.
SafeChars == {"a", "Z", "5", "_", "-"}

Chars == SafeChars \cup {"/", ".", " "}

\* The longest id the model enumerates in full.
MaxShort == 2

Repeat(c, n) == [i \in 1..n |-> c]

\* The ids of the requests: every short id, and long ids around the limits.
CandidateIds ==
    UNION {[1..n -> Chars] : n \in 0..MaxShort}
    \cup {Repeat("a", n) : n \in {63, 64, 65, 127, 128, 129, 130}}
    \cup {Append(Repeat("a", n), "/") : n \in {63, 127}}

\* SAFE_ID_RE.test(conversationId).
SAFE_ID_RE(conversationId) ==
    /\ Len(conversationId) >= 1
    /\ \A i \in 1..Len(conversationId) : conversationId[i] \in SafeChars

\* Variant: a limit that is not itself allowed.
requireValidConversationIdOrThrowStrict(conversationId, maxLen) ==
    IF conversationId = <<>> THEN 400
    ELSE IF Len(conversationId) >= maxLen THEN 400
    ELSE IF ~SAFE_ID_RE(conversationId) THEN 400
    ELSE 0

\* requireValidConversationIdOrThrow: the status of the error thrown, or 0.
requireValidConversationIdOrThrow(conversationId, maxLen) ==
    IF conversationId = <<>> THEN 400
    ELSE IF Len(conversationId) > maxLen THEN 400
    ELSE IF ~SAFE_ID_RE(conversationId) THEN 400
    ELSE 0

\* The server process starts: securityConfig reads the environment.
Boot(raw) ==
    /\ idcheck.pc = "off"
    /\ idcheck' = [NoCheck EXCEPT !.pc = "idle", !.maxLen = envInt(raw, DefaultMaxLen)]

\* GET, PUT or DELETE /api/sync/conversations/:conversationId of an
\* authenticated user, up to the first use of the store: an id that fails
\* the check is answered by jsonErrorFromThrowable.
IdRequest(method, id) ==
    /\ idcheck.pc = "idle"
    /\ LET thrown == requireValidConversationIdOrThrow(id, idcheck.maxLen)
       IN idcheck' = [idcheck EXCEPT !.method = method, !.id = id,
                         !.pc = IF thrown # 0 THEN "answered" ELSE "handler",
                         !.rejected = thrown # 0, !.status = thrown,
                         !.accessed = FALSE, !.published = FALSE]

\* The rest of the handler of a request whose id passed: it may refuse the
\* body (400), or use the store and answer, and publish an accepted write.
HandlerRuns ==
    /\ idcheck.pc = "handler"
    /\ \E status \in {200, 400, 404, 409} :
         /\ idcheck.method = "GET" => status \in {200, 404}
         /\ idcheck' = [idcheck EXCEPT !.pc = "answered", !.status = status,
                           !.accessed = status # 400,
                           !.published = status = 200 /\ idcheck.method # "GET"]

\* The response is sent.
IdResponds ==
    /\ idcheck.pc = "answered"
    /\ idcheck' = [NoCheck EXCEPT !.pc = "idle", !.maxLen = idcheck.maxLen]

ValidationStep ==
    \/ \E raw \in EnvValues : Boot(raw)
    \/ \E method \in {"GET", "PUT", "DELETE"}, id \in CandidateIds : IdRequest(method, id)
    \/ HandlerRuns
    \/ IdResponds

NextValidation ==
    ValidationStep
    /\ UNCHANGED <<rows, serverVars, clientVars, lifecycleVars, sse, listed, unitVars>>

SpecValidation == InitServer /\ [][NextValidation]_vars

\* ------------------------------------------------------------------------
\* Client agent (chatSyncAgent.ts, chatSyncConflictResolver.ts): operators
\* ------------------------------------------------------------------------

\* A continuation in the microtask queue.
Micro(pc, id, copy, revision, setRev) ==
    [pc |-> pc, id |-> id, copy |-> copy, revision |-> revision, setRev |-> setRev]

\* History: the client has the content of this revision of id.
Obtain(st, id, revision) == [st EXCEPT !.obtained[id] = @ \cup {revision}]

\* ---- realtime channel ----

\* Variant: only the dirty test.
shouldSkipRemoteApplyDirtyOnly(st, id, expectedRevision) ==
    st.dirtyOpById[id] # NoOp

\* Variant: a skip only for an event below the revision held.
shouldSkipRemoteApplyBelow(st, id, expectedRevision) ==
    \/ st.dirtyOpById[id] # NoOp
    \/ /\ st.remoteRevisionById[id] # NullRev
       /\ st.remoteRevisionById[id] > expectedRevision

shouldSkipRemoteApply(st, id, expectedRevision) ==
    \/ st.dirtyOpById[id] # NoOp
    \/ /\ st.remoteRevisionById[id] # NullRev
       /\ st.remoteRevisionById[id] >= expectedRevision

\* applyRemoteDelete up to the end of the muted function; when it skips, it
\* returns to its caller ("drain_skipped").
applyRemoteDelete(st, id, revision) ==
    IF st.stopped \/ shouldSkipRemoteApply(st, id, revision)
    THEN [st EXCEPT !.micro = Micro("drain_skipped", id, Undefined, revision, FALSE)]
    ELSE LET s1 == MuteEnter(st, id)
             s2 == IF s1.conversations[id] # Undefined
                   THEN deleteConversations(s1, id) ELSE s1
         IN [Obtain(s2, id, revision) EXCEPT
                !.micro = Micro("drain_apply", id, Undefined, revision, TRUE)]

\* applyRemoteUpsertByGet up to its first GET.
applyRemoteUpsertByGet(st, id, expectedRevision) ==
    IF st.stopped \/ shouldSkipRemoteApply(st, id, expectedRevision)
    THEN [st EXCEPT !.micro = Micro("drain_skipped", id, Undefined, expectedRevision, FALSE)]
    ELSE [st EXCEPT !.drain = [IdleCall EXCEPT !.pc = "sent", !.what = "drain", !.id = id,
                                               !.expected = expectedRevision,
                                               !.overlaps = st.drain.pc # "idle"]]

\* Variant: a channel without the drainInFlight flag.
drainBusyNever(st) == FALSE

\* drainInFlight as queueEvent and drainQueue read it.
drainBusy(st) == st.drainInFlight

\* The finally block of drainQueue: a drainQueue() called again for
\* drainAgain finds pendingById empty.
drainFinally(st) ==
    [st EXCEPT !.drainInFlight = FALSE, !.drainAgain = FALSE, !.micro = NoMicro]

\* One turn of the while loop of drainQueue, up to the next await.
drainIteration(st) ==
    IF st.stopped \/ st.pendingById = <<>> THEN drainFinally(st)
    ELSE LET next == Head(st.pendingById)
             s1 == [st EXCEPT !.pendingById = Tail(@), !.micro = NoMicro]
         IN IF next.deleted
            THEN applyRemoteDelete(s1, next.conversationId, next.revision)
            ELSE applyRemoteUpsertByGet(s1, next.conversationId, next.revision)

drainQueue(st) ==
    IF drainBusy(st) THEN st
    ELSE drainIteration([st EXCEPT !.drainInFlight = TRUE])

\* queueEvent: the entry of the id keeps its place in the Map.
queueEvent(st, e) ==
    LET at == {i \in 1..Len(st.pendingById) :
                  st.pendingById[i].conversationId = e.conversationId}
        entry == [conversationId |-> e.conversationId, revision |-> e.revision,
                  deleted |-> e.deleted]
        s1 == IF at = {} THEN [st EXCEPT !.pendingById = Append(@, entry)]
              ELSE LET i == CHOOSE i \in at : TRUE
                   IN IF e.revision > st.pendingById[i].revision
                      THEN [st EXCEPT !.pendingById[i] = entry]
                      ELSE st
    IN IF drainBusy(s1) THEN [s1 EXCEPT !.drainAgain = TRUE] ELSE drainQueue(s1)

\* ---- initial pull ----

\* Variant: a reconcile that takes a missing conversation for a deletion.
reconcileOneInfersDelete(st, id) ==
    LET conversation == st.conversations[id]
    IN IF st.dirtyOpById[id] # "upsert" THEN st
       ELSE IF conversation = Undefined \/ ~isConversationSyncEligible(conversation)
            THEN uploaderQueueDelete(st, id)
            ELSE uploaderQueueUpsert(st, sanitizeConversationForSync(conversation))

\* One entry of the loop of reconcileDirtyUpsertsAfterHydration.
reconcileOne(st, id) ==
    LET conversation == st.conversations[id]
    IN IF st.dirtyOpById[id] # "upsert" THEN st
       ELSE IF conversation = Undefined \/ ~isConversationSyncEligible(conversation)
            THEN [setError(clearDirty(st, id), id, NoError) EXCEPT !.dropped = @ \cup {id}]
            ELSE uploaderQueueUpsert(st, sanitizeConversationForSync(conversation))

RECURSIVE reconcileEach(_, _)
reconcileEach(st, ids) ==
    IF ids = {} THEN st
    ELSE LET id == CHOOSE x \in ids : TRUE
         IN reconcileEach(reconcileOne(st, id), ids \ {id})

reconcileDirtyUpsertsAfterHydration(st) ==
    reconcileEach(st, {id \in Ids : st.dirtyOpById[id] # NoOp})

RECURSIVE flushEach(_, _)
flushEach(st, ids) ==
    IF ids = {} THEN st
    ELSE LET id == CHOOSE x \in ids : TRUE
         IN flushEach(tryFlush(st, id), ids \ {id})

\* The agent after `await initialPullAndApplyRemote()`: startRealtimeAfterInit
\* and its connect(), unless stopped.
startRealtimeAfterInit(st) == IF st.stopped THEN st ELSE [st EXCEPT !.realtime = TRUE]

\* Steps 3 to 5 of initialPullAndApplyRemote, then the realtime channel.
pullFinish(st) ==
    LET s1 == [st EXCEPT !.mode = "http"]
        s2 == reconcileDirtyUpsertsAfterHydration(s1)
        s3 == flushEach(s2, {id \in Ids : s2.dirtyOpById[id] # NoOp})
    IN startRealtimeAfterInit([s3 EXCEPT !.pull = FinishedPull, !.micro = NoMicro])

\* Variant: step 1 records the listed revision of every id.
RECURSIVE pullRecordRevisionsOfAll(_, _, _)
pullRecordRevisionsOfAll(st, dirtyAtStartup, i) ==
    IF i > Len(st.pull.items) THEN st
    ELSE LET item == st.pull.items[i]
         IN pullRecordRevisionsOfAll(
                setRemoteRevision(st, item.conversationId, item.revision),
                dirtyAtStartup, i + 1)

\* Step 1: the listed revisions of the ids that are not dirty.
RECURSIVE pullRecordRevisions(_, _, _)
pullRecordRevisions(st, dirtyAtStartup, i) ==
    IF i > Len(st.pull.items) THEN st
    ELSE LET item == st.pull.items[i]
         IN pullRecordRevisions(
                IF dirtyAtStartup[item.conversationId] # NoOp THEN st
                ELSE setRemoteRevision(st, item.conversationId, item.revision),
                dirtyAtStartup, i + 1)

\* Step 2 from item i on, up to the next await.
RECURSIVE pullLoop(_, _)
pullLoop(st, i) ==
    IF i > Len(st.pull.items) THEN pullFinish(st)
    ELSE IF st.stopped THEN [st EXCEPT !.pull = FinishedPull, !.micro = NoMicro]
    ELSE LET item == st.pull.items[i]
             id == item.conversationId
             localConversation == st.conversations[id]
             shouldPull == localConversation = Undefined \/ st.pull.prev[id] # item.revision
         IN IF st.dirtyOpById[id] # NoOp THEN pullLoop(st, i + 1)
            ELSE IF item.deleted
                 THEN IF localConversation = Undefined THEN pullLoop(st, i + 1)
                      ELSE [Obtain(deleteConversations(MuteEnter(st, id), id), id, item.revision)
                               EXCEPT !.pull.pc = "loop", !.pull.idx = i,
                                      !.micro = Micro("pull_apply", id, Undefined, 0, FALSE)]
            ELSE IF ~shouldPull THEN pullLoop(st, i + 1)
            ELSE [st EXCEPT !.pull.pc = "get_sent", !.pull.idx = i, !.micro = NoMicro,
                            !.pull.hadLocal = localConversation # Undefined]

\* ------------------------------------------------------------------------
\* Client and server together: actions
\* ------------------------------------------------------------------------

\* The ids the user and the other device create conversations under; the
\* other ids are the uuids left for conflict copies.
UserIds == {"c1"}

\* A conversation the user starts: one message, with a user title or none.
Drafts(id) ==
    {DConversation(id, <<"me">>, <<"T">>, <<>>, 5, FALSE),
     DConversation(id, <<"me">>, <<>>, <<>>, 5, FALSE)}

\* The user adds a message to a conversation.
Edited(c) == [c EXCEPT !.messages = Append(@, "me"), !.tokenCount = 5]

\* The user removes the messages of a conversation.
Cleared(c) == [c EXCEPT !.messages = <<>>, !.tokenCount = 0]

\* What the user's other device uploads: its own message, an auto title.
OtherDrafts(id) == {SyncConversation(id, <<"other">>, <<>>, <<"A">>)}

\* An id no party has used: a new uuid.
Unused(id) ==
    /\ ~rows[<<Me, id>>].present
    /\ conversations[id] = Undefined /\ latestById[id] = Undefined
    /\ remoteRevisionById[id] = NullRev /\ dirtyOpById[id] = NoOp
    /\ pending[id] = NoOp /\ pendingUpsertPayloadById[id] = Undefined
    /\ flush[id].pc = "idle"

\* No continuation of the client waits in the microtask queue: a new task
\* (user event, timer, network event) may run.
TaskMayRun == micro.pc = "none"

ServerKept == UNCHANGED <<rows, updatedOrder, stream, serverVars, lifecycleVars, sse, idcheck, listed, unitVars>>

CountersKept == UNCHANGED <<edits, failures, restarts>>

\* ---- the user ----

\* set() of the chat store and the watcher's subscriber.
UserSets(id, next) ==
    /\ TaskMayRun
    /\ edits < MaxEdits
    /\ edits' = edits + 1
    /\ \E maxWaitExceeded \in BOOLEAN :
         Commit(IF stopped THEN [Cur EXCEPT !.conversations[id] = next]
                ELSE handleStoreChange([Cur EXCEPT !.conversations[id] = next], id,
                                       conversations[id], next, maxWaitExceeded))
    /\ ServerKept
    /\ UNCHANGED <<failures, restarts>>

LocalCreate(id) ==
    /\ Unused(id)
    /\ \E next \in Drafts(id) : UserSets(id, next)

LocalEdit(id) ==
    /\ conversations[id] # Undefined
    /\ UserSets(id, Edited(conversations[id]))

LocalDelete(id) ==
    /\ conversations[id] # Undefined
    /\ UserSets(id, Undefined)

\* The user removes every message of a conversation.
LocalClear(id) ==
    /\ conversations[id] # Undefined
    /\ conversations[id].messages # <<>>
    /\ UserSets(id, Cleared(conversations[id]))

\* The debounce timer of the watcher fires.
WatcherTimer(id) ==
    /\ TaskMayRun
    /\ pending[id] # NoOp
    /\ Commit(flushIntent(Cur, id))
    /\ ServerKept /\ CountersKept

\* stop(): the flag, the realtime channel (connection and queued events),
\* the watcher (store subscription, timers, pending and latest maps) and the
\* mute registry.
Stop ==
    /\ TaskMayRun
    /\ ~stopped
    /\ stream' = <<>>
    /\ Commit([Cur EXCEPT
           !.stopped = TRUE,
           !.realtime = FALSE,
           !.pendingById = <<>>,
           !.pending = [id \in Ids |-> NoOp],
           !.latestById = [id \in Ids |-> Undefined],
           !.muteCountById = [id \in Ids |-> 0]])
    /\ UNCHANGED <<rows, updatedOrder, serverVars, lifecycleVars, sse, idcheck, listed, unitVars>> /\ CountersKept

\* The page is reloaded: the stores persist, everything else starts anew.
Restart ==
    /\ TaskMayRun
    /\ restarts < MaxRestarts
    /\ restarts' = restarts + 1
    /\ stream' = <<>>
    /\ Commit([Cur EXCEPT
           !.pendingUpsertPayloadById = [id \in Ids |-> Undefined],
           !.flush = [id \in Ids |-> IdleCall],
           !.mode = "disabled",
           !.pending = [id \in Ids |-> NoOp],
           !.latestById = [id \in Ids |-> Undefined],
           !.muteCountById = [id \in Ids |-> 0],
           !.pull = StartedPull(remoteRevisionById),
           !.drain = IdleCall,
           !.pendingById = <<>>,
           !.drainInFlight = FALSE,
           !.drainAgain = FALSE,
           !.realtime = FALSE,
           !.stopped = FALSE,
           !.dropped = {}])
    /\ UNCHANGED <<rows, updatedOrder, serverVars, lifecycleVars, sse, idcheck, listed, unitVars, edits, failures>>

\* ---- the server ----

\* baseRevision as it stands in a JSON body.
JsonRevision(baseRevision) ==
    IF baseRevision = NullRev THEN [kind |-> "null", n |-> 0]
    ELSE [kind |-> "number", n |-> baseRevision]

\* publishConversationChanged towards the client: the event is on its way
\* if the client's stream is open (delivered), and lost otherwise.
Published(id, revision, deleted, delivered) ==
    IF delivered /\ realtime /\ Len(stream) < MaxStream
    THEN Append(stream, [conversationId |-> id, revision |-> revision, deleted |-> deleted])
    ELSE stream

\* updated_at = now() of the written row: it is the latest.
Touched(id) == <<id>> \o SelectSeq(updatedOrder, LAMBDA x : x # id)

\* PUT or DELETE of a conversation of the client's user, handled from the
\* body checks to the response.
Handled(op, id, baseRevision, data) ==
    LET row == rows[<<Me, id>>]
        body == [conversationId |-> id, baseRevision |-> JsonRevision(baseRevision),
                 data |-> data]
        rejected == IF op = "upsert" THEN PutRejects(body) ELSE DeleteRejects(body)
        base == parseBaseRevision(body.baseRevision).value
        after == IF rejected # "" THEN row ELSE WriteStatement(op, row, base, data)
        result == IF rejected # "" THEN [kind |-> "badrequest", revision |-> 0, deleted |-> FALSE]
                  ELSE IF StatementReturned(row, base) THEN OkResult(after.revision)
                  ELSE LookupResult(after, base)
    IN [after |-> after, result |-> result]

WriteApplied(op, id, h) ==
    /\ h.after.revision <= MaxRev
    /\ rows' = [rows EXCEPT ![<<Me, id>>] = h.after]
    /\ updatedOrder' = IF h.result.kind = "ok" THEN Touched(id) ELSE updatedOrder
    /\ \E delivered \in BOOLEAN :
         stream' = IF h.result.kind = "ok"
                   THEN Published(id, h.result.revision, op = "delete", delivered)
                   ELSE stream

\* The server handles the PUT / DELETE of tryFlush(id).
ServerHandlesFlush(id) ==
    /\ TaskMayRun
    /\ flush[id].pc = "sent"
    /\ LET call == flush[id]
           h == Handled(call.op, id, call.baseRevision, call.data)
           st == [Cur EXCEPT !.flush[id].pc = "replied",
                             !.flush[id].reply = [NoReply EXCEPT !.kind = h.result.kind,
                                                     !.revision = h.result.revision,
                                                     !.deleted = h.result.deleted]]
       IN /\ WriteApplied(call.op, id, h)
          /\ Commit(IF h.result.kind = "ok" THEN Obtain(st, id, h.result.revision) ELSE st)
    /\ UNCHANGED <<serverVars, lifecycleVars, sse, idcheck, listed, unitVars>> /\ CountersKept

\* The other device of the user writes with the revision it holds.
OtherWrites(op, id) ==
    /\ TaskMayRun
    /\ IF rows[<<Me, id>>].present THEN TRUE ELSE op = "upsert" /\ Unused(id)
    /\ \E data \in OtherDrafts(id) :
         LET row == rows[<<Me, id>>]
             h == Handled(op, id, IF row.present THEN row.revision ELSE NullRev, data)
         IN WriteApplied(op, id, h)
    /\ Commit(Cur)
    /\ UNCHANGED <<serverVars, lifecycleVars, sse, idcheck, listed, unitVars>> /\ CountersKept

OtherUpserts(id) == OtherWrites("upsert", id)

OtherDeletes(id) == ~rows[<<Me, id>>].deleted /\ OtherWrites("delete", id)

\* GET /api/sync/conversations: listConversationMetas.
ListReply ==
    [NoReply EXCEPT !.kind = "ok",
        !.items = [i \in 1..Len(updatedOrder) |->
                     [conversationId |-> updatedOrder[i],
                      revision |-> rows[<<Me, updatedOrder[i]>>].revision,
                      deleted |-> rows[<<Me, updatedOrder[i]>>].deleted]]]

ServerHandlesResolverGet(id) ==
    /\ TaskMayRun
    /\ flush[id].pc = "get_sent"
    /\ Commit([Cur EXCEPT !.flush[id].pc = "get_replied",
                          !.flush[id].reply = GetReply(rows[<<Me, id>>])])
    /\ ServerKept /\ CountersKept

ServerHandlesList ==
    /\ TaskMayRun
    /\ pull.pc = "list_sent"
    /\ Commit([Cur EXCEPT !.pull.pc = "list_replied", !.pull.reply = ListReply])
    /\ ServerKept /\ CountersKept

ServerHandlesPullGet ==
    /\ TaskMayRun
    /\ pull.pc = "get_sent"
    /\ Commit([Cur EXCEPT !.pull.pc = "get_replied",
                  !.pull.reply = GetReply(rows[<<Me, pull.items[pull.idx].conversationId>>])])
    /\ ServerKept /\ CountersKept

ServerHandlesDrainGet ==
    /\ TaskMayRun
    /\ drain.pc = "sent"
    /\ Commit([Cur EXCEPT !.drain.pc = "replied",
                          !.drain.reply = GetReply(rows[<<Me, drain.id>>])])
    /\ ServerKept /\ CountersKept

\* ---- the uploader's answers ----

\* tryFlush after a successful PUT / DELETE: the ACK paths.
FlushAcked(id) ==
    /\ TaskMayRun
    /\ flush[id].pc = "replied" /\ flush[id].reply.kind = "ok"
    /\ LET s1 == clearDirty(setRemoteRevision(Cur, id, flush[id].reply.revision), id)
           s2 == [s1 EXCEPT !.pendingUpsertPayloadById[id] = Undefined]
       IN Commit(tryFlushFinally(s2, id, flush[id].op))
    /\ ServerKept /\ CountersKept

\* tryFlush after a 409: handleConflict up to the GET of the resolver.
FlushConflicted(id) ==
    /\ TaskMayRun
    /\ flush[id].pc = "replied" /\ flush[id].reply.kind = "conflict"
    /\ Commit(IF mode = "disabled"
              THEN tryFlushFinally(
                       setError(Cur, id, "conflict: cannot resolve while transport disabled"),
                       id, flush[id].op)
              ELSE [Cur EXCEPT !.flush[id].pc = "get_sent", !.flush[id].reply = NoReply])
    /\ ServerKept /\ CountersKept

\* tryFlush after any other answer, or after none (network error).
FlushFailed(id) ==
    /\ TaskMayRun
    /\ flush[id].pc \in {"sent", "replied"}
    /\ LET refused == flush[id].pc = "replied" /\ flush[id].reply.kind \notin {"ok", "conflict"}
       IN /\ IF refused THEN TRUE ELSE failures < MaxFailures
          /\ failures' = IF refused THEN failures ELSE failures + 1
    /\ Commit(tryFlushFinally(setError(Cur, id, "error"), id, flush[id].op))
    /\ ServerKept /\ UNCHANGED <<edits, restarts>>

\* ---- the conflict resolver ----

\* Variant: a resolver that copies the attempted payload before it knows
\* whether the GET succeeded, and gives the edit up when the GET failed.
ResolverGetFailedCopies(id) ==
    /\ TaskMayRun
    /\ flush[id].pc \in {"get_sent", "get_replied"}
    /\ LET refused == flush[id].pc = "get_replied" /\ flush[id].reply.kind # "ok"
       IN /\ IF refused THEN TRUE ELSE failures < MaxFailures
          /\ failures' = IF refused THEN failures ELSE failures + 1
    /\ \E copyId \in Ids :
         /\ Unused(copyId)
         /\ LET copy == inflateConversationFromSync(
                            makeConflictCopyPayload(flush[id].data, copyId))
                s1 == [Cur EXCEPT !.conversations[copyId] = copy]
            IN Commit(tryFlushFinally(clearDirty(s1, id), id, flush[id].op))
    /\ ServerKept /\ UNCHANGED <<edits, restarts>>

\* The GET of the resolver failed.
ResolverGetFailed(id) ==
    /\ TaskMayRun
    /\ flush[id].pc \in {"get_sent", "get_replied"}
    /\ LET refused == flush[id].pc = "get_replied" /\ flush[id].reply.kind # "ok"
       IN /\ IF refused THEN TRUE ELSE failures < MaxFailures
          /\ failures' = IF refused THEN failures ELSE failures + 1
    /\ Commit(tryFlushFinally(setError(Cur, id, "conflict: failed to fetch remote"),
                              id, flush[id].op))
    /\ ServerKept /\ UNCHANGED <<edits, restarts>>

\* handleUpsertConflict from the answer of the GET to the end of the muted
\* import of the copy; copyId is the new uuid.
ResolverCopies(id) ==
    /\ TaskMayRun
    /\ flush[id].pc = "get_replied" /\ flush[id].reply.kind = "ok"
    /\ flush[id].op = "upsert"
    /\ \E copyId \in Ids :
         /\ Unused(copyId)
         /\ LET copyPayload == makeConflictCopyPayload(flush[id].data, copyId)
                s1 == importConversation(MuteEnter(Cur, copyId),
                                         inflateConversationFromSync(copyPayload))
            IN Commit([s1 EXCEPT !.micro = Micro("resolver_copy", id, copyPayload, 0, FALSE)])
    /\ ServerKept /\ CountersKept

\* handleUpsertConflict: the copy is queued, the remote state is applied to
\* the original id under mute.
ResolverCopyDone ==
    /\ micro.pc = "resolver_copy"
    /\ LET id == micro.id
           remote == flush[id].reply
           s1 == uploaderQueueUpsert(MuteExit(Cur, micro.copy.id), micro.copy)
           s2 == applyRemoteToStore(MuteEnter(s1, id), id, remote.deleted, remote.data)
       IN Commit([Obtain(s2, id, remote.revision) EXCEPT
                     !.micro = Micro("resolver_apply", id, Undefined, 0, FALSE)])
    /\ ServerKept /\ CountersKept

\* handleDeleteConflict from the answer of the GET to the end of the muted
\* function.
ResolverRestores(id) ==
    /\ TaskMayRun
    /\ flush[id].pc = "get_replied" /\ flush[id].reply.kind = "ok"
    /\ flush[id].op = "delete"
    /\ LET remote == flush[id].reply
           s1 == applyRemoteToStore(MuteEnter(Cur, id), id, remote.deleted, remote.data)
       IN Commit([Obtain(s1, id, remote.revision) EXCEPT
                     !.micro = Micro("resolver_apply", id, Undefined, 0, FALSE)])
    /\ ServerKept /\ CountersKept

\* Both handlers: the revision is recorded, the dirty op and the error are
\* cleared, and tryFlush reaches its finally block.
ResolverApplyDone ==
    /\ micro.pc = "resolver_apply"
    /\ LET id == micro.id
           s1 == setRemoteRevision(MuteExit(Cur, id), id, flush[id].reply.revision)
           s2 == setError(clearDirty(s1, id), id, NoError)
       IN Commit(tryFlushFinally([s2 EXCEPT !.micro = NoMicro], id, flush[id].op))
    /\ ServerKept /\ CountersKept

\* ---- the initial pull ----

\* The list arrived: steps 1 and 2 up to the first await, or to the end.
ListArrives ==
    /\ TaskMayRun
    /\ pull.pc = "list_replied"
    /\ LET s1 == [Cur EXCEPT !.pull.items = pull.reply.items, !.pull.reply = NoReply]
       IN Commit(pullLoop(pullRecordRevisions(s1, dirtyOpById, 1), 1))
    /\ ServerKept /\ CountersKept

\* The list failed: the transport stays disabled; realtime starts.
ListFailed ==
    /\ TaskMayRun
    /\ pull.pc \in {"list_sent", "list_replied"}
    /\ failures < MaxFailures
    /\ failures' = failures + 1
    /\ Commit(startRealtimeAfterInit([Cur EXCEPT !.pull = FinishedPull]))
    /\ ServerKept /\ UNCHANGED <<edits, restarts>>

\* The GET of step 2 arrived.
PullGetArrives ==
    /\ TaskMayRun
    /\ pull.pc = "get_replied" /\ pull.reply.kind = "ok"
    /\ LET id == pull.items[pull.idx].conversationId
           remote == pull.reply
           s0 == [Cur EXCEPT !.pull.pc = "loop", !.pull.reply = NoReply]
       IN Commit(
            IF remote.deleted \/ remote.data = Null
            THEN IF pull.hadLocal
                 THEN [Obtain(deleteConversations(MuteEnter(s0, id), id), id, remote.revision)
                          EXCEPT !.micro = Micro("pull_apply", id, Undefined, 0, FALSE)]
                 ELSE pullLoop(s0, pull.idx + 1)
            ELSE [Obtain(importConversation(MuteEnter(s0, id),
                                            inflateConversationFromSync(remote.data)),
                         id, remote.revision)
                     EXCEPT !.micro = Micro("pull_apply", id, Undefined, remote.revision, TRUE)])
    /\ ServerKept /\ CountersKept

\* The GET of step 2 failed: the loop goes on.
PullGetFailed ==
    /\ TaskMayRun
    /\ pull.pc \in {"get_sent", "get_replied"}
    /\ LET refused == pull.pc = "get_replied" /\ pull.reply.kind # "ok"
       IN /\ IF refused THEN TRUE ELSE failures < MaxFailures
          /\ failures' = IF refused THEN failures ELSE failures + 1
    /\ Commit(pullLoop([Cur EXCEPT !.pull.pc = "loop", !.pull.reply = NoReply], pull.idx + 1))
    /\ ServerKept /\ UNCHANGED <<edits, restarts>>

\* After a muted apply of step 2.
PullApplyDone ==
    /\ micro.pc = "pull_apply"
    /\ LET s1 == MuteExit(Cur, micro.id)
           s2 == IF micro.setRev THEN setRemoteRevision(s1, micro.id, micro.revision) ELSE s1
       IN Commit(pullLoop([s2 EXCEPT !.micro = NoMicro], pull.idx + 1))
    /\ ServerKept /\ CountersKept

\* ---- the realtime channel ----

\* A conversation_changed event arrives: queueEvent.
EsMessage ==
    /\ TaskMayRun
    /\ realtime /\ stream # <<>>
    /\ stream' = Tail(stream)
    /\ Commit(queueEvent(Cur, Head(stream)))
    /\ UNCHANGED <<rows, updatedOrder, serverVars, lifecycleVars, sse, idcheck, listed, unitVars>> /\ CountersKept

\* The while loop of drainQueue goes on.
DrainLoop ==
    /\ micro.pc \in {"drain_loop", "drain_skipped"}
    /\ Commit(drainIteration([Cur EXCEPT !.drain = IdleCall]))
    /\ ServerKept /\ CountersKept

\* applyRemoteUpsertByGet: the answer of the GET.
DrainGetArrives ==
    /\ TaskMayRun
    /\ drain.pc = "replied" /\ drain.reply.kind = "ok"
    /\ LET remote == drain.reply
           id == drain.id
           s0 == [Cur EXCEPT !.drain.pc = "applying"]
       IN Commit(
            IF remote.deleted \/ remote.data = Null
            THEN applyRemoteDelete(s0, id, remote.revision)
            ELSE IF remote.revision < drain.expected /\ drain.attempt = 0
            THEN [Cur EXCEPT !.drain.pc = "sent", !.drain.attempt = 1, !.drain.reply = NoReply]
            ELSE [Obtain(importConversation(MuteEnter(s0, id),
                                            inflateConversationFromSync(remote.data)),
                         id, remote.revision)
                     EXCEPT !.micro = Micro("drain_apply", id, Undefined, remote.revision, TRUE)])
    /\ ServerKept /\ CountersKept

\* applyRemoteUpsertByGet: the GET failed.
DrainGetFailed ==
    /\ TaskMayRun
    /\ drain.pc \in {"sent", "replied"}
    /\ LET refused == drain.pc = "replied" /\ drain.reply.kind # "ok"
       IN /\ IF refused THEN TRUE ELSE failures < MaxFailures
          /\ failures' = IF refused THEN failures ELSE failures + 1
    /\ Commit([Cur EXCEPT !.drain = IdleCall,
                          !.micro = Micro("drain_loop", "", Undefined, 0, FALSE)])
    /\ ServerKept /\ UNCHANGED <<edits, restarts>>

\* After the muted apply of the realtime channel: the revision is recorded.
DrainApplyDone ==
    /\ micro.pc = "drain_apply"
    /\ LET s1 == setRemoteRevision(MuteExit(Cur, micro.id), micro.id, micro.revision)
       IN Commit([s1 EXCEPT !.drain = IdleCall,
                            !.micro = Micro("drain_loop", "", Undefined, 0, FALSE)])
    /\ ServerKept /\ CountersKept

Init == InitServer

Next ==
    \/ \E id \in UserIds : LocalCreate(id)
    \/ \E id \in UserIds : LocalEdit(id)
    \/ \E id \in UserIds : LocalDelete(id)
    \/ \E id \in UserIds : LocalClear(id)
    \/ \E id \in Ids : WatcherTimer(id)
    \/ Restart
    \/ \E id \in Ids : ServerHandlesFlush(id)
    \/ \E id \in UserIds : OtherUpserts(id)
    \/ \E id \in UserIds : OtherDeletes(id)
    \/ \E id \in Ids : ServerHandlesResolverGet(id)
    \/ ServerHandlesList
    \/ ServerHandlesPullGet
    \/ ServerHandlesDrainGet
    \/ \E id \in Ids : FlushAcked(id)
    \/ \E id \in Ids : FlushConflicted(id)
    \/ \E id \in Ids : FlushFailed(id)
    \/ \E id \in Ids : ResolverGetFailed(id)
    \/ \E id \in Ids : ResolverCopies(id)
    \/ ResolverCopyDone
    \/ \E id \in Ids : ResolverRestores(id)
    \/ ResolverApplyDone
    \/ ListArrives
    \/ ListFailed
    \/ PullGetArrives
    \/ PullGetFailed
    \/ PullApplyDone
    \/ EsMessage
    \/ DrainLoop
    \/ DrainGetArrives
    \/ DrainGetFailed
    \/ DrainApplyDone

Spec == Init /\ [][Next]_vars

\* One run of the agent up to and after its stop(): no reload.
NextStop ==
    \/ Stop
    \/ \E id \in UserIds : LocalCreate(id)
    \/ \E id \in UserIds : LocalEdit(id)
    \/ \E id \in UserIds : LocalDelete(id)
    \/ \E id \in UserIds : LocalClear(id)
    \/ \E id \in Ids : WatcherTimer(id)
    \/ \E id \in Ids : ServerHandlesFlush(id)
    \/ \E id \in UserIds : OtherUpserts(id)
    \/ \E id \in UserIds : OtherDeletes(id)
    \/ \E id \in Ids : ServerHandlesResolverGet(id)
    \/ ServerHandlesList
    \/ ServerHandlesPullGet
    \/ ServerHandlesDrainGet
    \/ \E id \in Ids : FlushAcked(id)
    \/ \E id \in Ids : FlushConflicted(id)
    \/ \E id \in Ids : FlushFailed(id)
    \/ \E id \in Ids : ResolverGetFailed(id)
    \/ \E id \in Ids : ResolverCopies(id)
    \/ ResolverCopyDone
    \/ \E id \in Ids : ResolverRestores(id)
    \/ ResolverApplyDone
    \/ ListArrives
    \/ ListFailed
    \/ PullGetArrives
    \/ PullGetFailed
    \/ PullApplyDone
    \/ EsMessage
    \/ DrainLoop
    \/ DrainGetArrives
    \/ DrainGetFailed
    \/ DrainApplyDone

SpecStop == Init /\ [][NextStop]_vars

\* The client as a reader: the other device writes, the client pulls and
\* follows the realtime channel.
NextRealtime ==
    \/ \E id \in UserIds : OtherUpserts(id)
    \/ \E id \in UserIds : OtherDeletes(id)
    \/ ServerHandlesList
    \/ ListArrives
    \/ ListFailed
    \/ ServerHandlesPullGet
    \/ PullGetArrives
    \/ PullGetFailed
    \/ PullApplyDone
    \/ EsMessage
    \/ DrainLoop
    \/ ServerHandlesDrainGet
    \/ DrainGetArrives
    \/ DrainGetFailed
    \/ DrainApplyDone

\* Every request is answered or fails; continuations and delivered events run.
RealtimeFairness ==
    WF_vars(DrainLoop \/ ServerHandlesDrainGet \/ DrainGetArrives
                \/ DrainGetFailed \/ DrainApplyDone)

SpecRealtime == Init /\ [][NextRealtime]_vars /\ RealtimeFairness

\* A burst of writes of the other device on a conversation of a connected
\* client: each write is accepted while the event stream of the client is open.
BurstWrites(id) == realtime /\ OtherUpserts(id)

\* The realtime channel of a client that connected to an empty server.
NextCoalescing ==
    \/ \E id \in UserIds : BurstWrites(id)
    \/ ServerHandlesList
    \/ ListArrives
    \/ ListFailed
    \/ EsMessage
    \/ DrainLoop
    \/ ServerHandlesDrainGet
    \/ DrainGetArrives
    \/ DrainGetFailed
    \/ DrainApplyDone

SpecCoalescing == Init /\ [][NextCoalescing]_vars

\* ------------------------------------------------------------------------
\* Properties of the revision store
\* ------------------------------------------------------------------------

\* Handler s runs its statement in this step.
Executes(s) == reqs[s].pc = "stmt" /\ reqs'[s].pc # "stmt"

\* Handler s runs its statement in this step and the write is accepted.
Accepted(s) == Executes(s) /\ reqs'[s].pc = "done" /\ reqs'[s].result.kind = "ok"

\* Handler s finishes its follow-up lookup in this step.
LooksUp(s) == reqs[s].pc = "lookup" /\ reqs'[s].pc = "done"

\* What a step does to the rows and to the answer of an accepted write.
C1_MonotonicStep ==
    \A k \in DOMAIN rows :
        /\ rows'[k].revision >= rows[k].revision
        /\ rows[k].present <=> rows[k].revision >= 1
        /\ rows'[k] # rows[k] => \E s \in Slots : Accepted(s) /\ reqs[s].key = k
        /\ \A s \in Slots : Accepted(s) /\ reqs[s].key = k =>
              /\ reqs'[s].result.revision = rows[k].revision + 1
              /\ rows'[k].revision = reqs'[s].result.revision
              /\ rows'[k].present

\* C1: per key the stored revision never decreases, a row changes only by an
\* accepted write, and an accepted write returns the stored revision + 1
\* (1 for the first write of the key), which is the revision stored after it.
C1_RevisionsStrictlyIncrease == [][C1_MonotonicStep]_vars

\* C1 witness: an accepted write returned a revision above 1.
C1_Witness ==
    \E s \in Slots : reqs[s].pc = "done" /\ reqs[s].result.kind = "ok"
                      /\ reqs[s].result.revision >= 2

\* What a step of a PUT with baseRevision null does.
C2_CreateOnlyStep ==
    \A s \in Slots :
        LET r == reqs[s]
            row == rows[r.key]
        IN r.op = "upsert" /\ r.baseRevision = NullRev =>
            /\ Executes(s) /\ row.present =>
                  rows' = rows /\ reqs'[s].pc = "lookup"
            /\ Executes(s) /\ ~row.present =>
                  /\ rows'[r.key] = [present |-> TRUE, revision |-> 1,
                                      deleted |-> FALSE, data |-> r.data]
                  /\ reqs'[s].result = OkResult(1)
            /\ LooksUp(s) =>
                  /\ rows' = rows /\ row.present
                  /\ HttpStatus(reqs'[s].result) = 409
                  /\ reqs'[s].result.revision = row.revision
                  /\ reqs'[s].result.deleted = row.deleted

\* C2: a PUT with baseRevision null leaves an existing row (live or
\* tombstoned) as it is and answers 409 with the row's revision and deleted
\* flag as read by the handler; on an absent key it creates the row at
\* revision 1 with the request's data.
C2_PutNullNeverOverwrites == [][C2_CreateOnlyStep]_vars

\* C2 witness: a PUT with baseRevision null was answered 409 for a tombstone.
C2_Witness ==
    \E s \in Slots :
        /\ reqs[s].pc = "done" /\ reqs[s].op = "upsert"
        /\ reqs[s].baseRevision = NullRev
        /\ reqs[s].result.kind = "conflict" /\ reqs[s].result.deleted
        /\ reqs[s].result.revision = 2

\* What a step of a DELETE with baseRevision null does.
C3_TombstoneNullStep ==
    /\ parseBaseRevision([kind |-> "undefined", n |-> 0]).value = NullRev
    /\ \A s \in Slots :
        LET r == reqs[s]
            row == rows[r.key]
        IN r.op = "delete" /\ r.baseRevision = NullRev =>
            /\ Executes(s) /\ ~row.present =>
                  /\ rows'[r.key] = [present |-> TRUE, revision |-> 1,
                                      deleted |-> TRUE, data |-> Null]
                  /\ reqs'[s].result = OkResult(1)
            /\ Executes(s) /\ row.present =>
                  rows' = rows /\ reqs'[s].pc = "lookup"
            /\ LooksUp(s) =>
                  /\ rows' = rows /\ row.present
                  /\ HttpStatus(reqs'[s].result) = 409
                  /\ reqs'[s].result.revision = row.revision
                  /\ reqs'[s].result.deleted = row.deleted

\* C3: a DELETE with baseRevision null (a missing baseRevision parses to
\* null) creates the tombstone (1, deleted, no blob) on an absent key and
\* returns 1; on a present key the row stays and the answer is the conflict
\* with the row's revision and deleted flag.
C3_DeleteNullCreatesTombstone == [][C3_TombstoneNullStep]_vars

\* C3 witness: the tombstone at revision 1 exists and a second DELETE with
\* baseRevision null was answered with the conflict.
C3_Witness ==
    \E s \in Slots :
        /\ reqs[s].pc = "done" /\ reqs[s].op = "delete"
        /\ reqs[s].baseRevision = NullRev
        /\ reqs[s].result = [kind |-> "conflict", revision |-> 1, deleted |-> TRUE]
        /\ rows[reqs[s].key].deleted /\ rows[reqs[s].key].revision = 1

\* The rows before and after an accepted write.
C4_BlobStep ==
    /\ \A k \in DOMAIN rows : rows[k].deleted => rows[k].data = Null
    /\ \A s \in Slots : Accepted(s) =>
          IF reqs[s].op = "upsert"
          THEN ~rows'[reqs[s].key].deleted /\ rows'[reqs[s].key].data # Null
          ELSE rows'[reqs[s].key].deleted /\ rows'[reqs[s].key].data = Null

\* C4 (as claimed): a deleted row has no blob; after an accepted upsert the
\* row is live with a non-null blob; after an accepted tombstone it is
\* deleted with no blob.
C4_AcceptedUpsertHasBlob == [][C4_BlobStep]_vars

\* The answers of the writes that raced, and of the accepted writes of a key.
C5_RaceInv ==
    /\ \A s \in Slots :
          LET R == {s} \cup {t \in Slots : <<s, t>> \in raced}
          IN R # {s} /\ (\A t \in R : reqs[t].pc = "done") =>
                /\ Cardinality({t \in R : reqs[t].result.kind = "ok"}) = 1
                /\ \A t \in R : reqs[t].result.kind \in {"ok", "conflict"}
    /\ \A s, t \in Slots :
          /\ s # t /\ reqs[s].pc = "done" /\ reqs[t].pc = "done"
          /\ reqs[s].key = reqs[t].key
          /\ reqs[s].result.kind = "ok" /\ reqs[t].result.kind = "ok"
          => /\ reqs[s].result.revision # reqs[t].result.revision
             /\ reqs[s].baseRevision # reqs[t].baseRevision

C5_ContentStep ==
    \A s \in Slots : Accepted(s) =>
        /\ rows'[reqs[s].key].revision = reqs'[s].result.revision
        /\ rows'[reqs[s].key].deleted = (reqs[s].op = "delete")
        /\ rows'[reqs[s].key].data = (IF reqs[s].op = "delete" THEN Null ELSE reqs[s].data)

\* C5: of the writes that raced on a key with the same, current baseRevision
\* exactly one is accepted and the others get the conflict; two accepted
\* writes of a key never carry the same baseRevision nor return the same
\* revision; and the row holds what the accepted write of the current
\* revision wrote.
C5_OneRacingWriteWins == []C5_RaceInv /\ [][C5_ContentStep]_vars

\* C5 witness: two writes raced; one was accepted, the other got the conflict.
C5_Witness ==
    \E s, t \in Slots :
        /\ <<s, t>> \in raced
        /\ reqs[s].pc = "done" /\ reqs[s].result.kind = "ok"
        /\ reqs[t].pc = "done" /\ reqs[t].result.kind = "conflict"
        /\ reqs[t].result.revision = reqs[s].result.revision

\* ------------------------------------------------------------------------
\* Properties of the client agent
\* ------------------------------------------------------------------------

\* The server accepts the PUT / DELETE of tryFlush(id) in this step.
FlushAccepted(id) ==
    /\ flush[id].pc = "sent"
    /\ flush'[id].pc = "replied" /\ flush'[id].reply.kind = "ok"

\* A step in which the server accepts a write of the client over a blob.
C6_BaseStep ==
    \A id \in Ids :
        /\ FlushAccepted(id)
        /\ rows[<<Me, id>>].present /\ ~rows[<<Me, id>>].deleted
        => rows[<<Me, id>>].revision \in obtained[id]

\* C6: a write of the client that the server accepts over a stored blob has
\* as its base a revision whose content the client has obtained, by applying
\* it or by writing it: no blob of another device is replaced or tombstoned
\* unseen.
C6_NoSilentOverwrite == [][C6_BaseStep]_vars

\* The ACK path of tryFlush(id) records the revision of the answer.
AckRecords(id) ==
    /\ micro.pc = "none"
    /\ flush[id].pc = "replied" /\ flush[id].reply.kind = "ok"
    /\ flush'[id].pc # "replied"
    /\ remoteRevisionById'[id] = flush[id].reply.revision

\* The revision of a GET whose blob or tombstone has been applied is recorded.
GetRecords(id) ==
    \/ /\ micro.pc = "pull_apply" /\ micro.id = id /\ micro.setRev
       /\ remoteRevisionById'[id] = micro.revision
    \/ /\ micro.pc = "drain_apply" /\ micro.id = id /\ drain.pc = "applying"
       /\ remoteRevisionById'[id] = drain.reply.revision

\* The resolver records the revision of the remote state it applied.
ResolverRecords(id) ==
    /\ micro.pc = "resolver_apply" /\ micro.id = id
    /\ remoteRevisionById'[id] = flush[id].reply.revision

\* A step that changes remoteRevisionById; the answer of the list.
C7_RevisionStep ==
    \A id \in Ids :
        /\ remoteRevisionById'[id] # remoteRevisionById[id]
              => AckRecords(id) \/ GetRecords(id) \/ ResolverRecords(id)
        /\ pull.pc = "list_replied" /\ dirtyOpById[id] # NoOp
              => remoteRevisionById'[id] = remoteRevisionById[id]

\* C7: remoteRevisionById[id] changes only on an accepted PUT / DELETE of
\* the client (a), on a GET of id whose blob or tombstone is applied (b), or
\* in the conflict resolver (c); the answer of the list never changes it for
\* an id that is dirty.
C7_RevisionChangesOnlyByAckGetResolver == [][C7_RevisionStep]_vars

\* The second sentence of C7 alone.
ListKeepsDirtyRevision ==
    [][\A id \in Ids : pull.pc = "list_replied" /\ dirtyOpById[id] # NoOp
            => remoteRevisionById'[id] = remoteRevisionById[id]]_vars

\* A step that leaves id muted, and the step that ends a muted apply.
C8_MutedStep ==
    \A id \in Ids :
        /\ muteCountById'[id] > 0
              => /\ pending'[id] = pending[id]
                 /\ latestById'[id] = latestById[id]
                 /\ dirtyOpById'[id] = dirtyOpById[id]
                 /\ pendingUpsertPayloadById'[id] = pendingUpsertPayloadById[id]
                 /\ flush'[id] = flush[id]
        /\ (/\ muteCountById[id] > 0
            /\ micro.id = id
            /\ micro.pc \in {"resolver_apply", "pull_apply", "drain_apply"})
              => /\ pending'[id] = pending[id]
                 /\ latestById'[id] = latestById[id]
                 /\ (dirtyOpById[id] = NoOp => dirtyOpById'[id] = NoOp)

\* C8: a step that changes the local store for id under mute (resolver,
\* initial pull, realtime) leaves the watcher and the uploader of id alone:
\* no intent, no snapshot, no dirty op, no payload, no request; and the step
\* that ends the muted apply of remote state leaves a clean id clean.
C8_MutedApplyNotEchoed == [][C8_MutedStep]_vars

\* A blob of the other device has been imported under mute: the store holds
\* it, the watcher has neither a snapshot of it nor an intent, id is clean.
C8_Witness ==
    \E id \in Ids :
        /\ micro.pc = "drain_apply" /\ micro.id = id
        /\ muteCountById[id] > 0
        /\ conversations[id] # Undefined
        /\ conversations[id].messages = <<"other">>
        /\ latestById[id] # conversations[id]
        /\ pending[id] = NoOp /\ dirtyOpById[id] = NoOp

\* The copy of the attempted payload, as it stands in the store.
IsCopyOf(copy, attempted) ==
    /\ copy # Undefined /\ copy.id # attempted.id
    /\ copy.messages = attempted.messages
    /\ IF attempted.userTitle # <<>>
       THEN copy.userTitle = attempted.userTitle \o ConflictCopySuffix
       ELSE IF attempted.autoTitle # <<>>
       THEN copy.autoTitle = attempted.autoTitle \o ConflictCopySuffix
       ELSE copy.autoTitle = ConflictCopyTitle

\* The state the resolver leaves when it completes for the conflict of X.
ResolvedStep ==
    micro.pc = "resolver_apply" =>
        LET X == micro.id
            remote == flush[X].reply
        IN /\ IF remote.deleted \/ remote.data = Null
              THEN conversations'[X] = Undefined
              ELSE /\ conversations'[X] # Undefined
                   /\ sanitizeConversationForSync(conversations'[X]) = remote.data
           /\ remoteRevisionById'[X] = remote.revision
           /\ dirtyOpById'[X] = NoOp
           /\ lastErrorById'[X] = NoError
           /\ flush[X].op = "upsert" =>
                \E copyId \in Ids \ {X} :
                    /\ IsCopyOf(conversations'[copyId], flush[X].data)
                    /\ dirtyOpById'[copyId] = "upsert"
                    /\ flush'[copyId].pc = "sent"
                    /\ flush'[copyId].op = "upsert"
                    /\ flush'[copyId].baseRevision = NullRev
                    /\ flush'[copyId].data = sanitizeConversationForSync(conversations'[copyId])

\* The resolver replaces the local X by the remote state in this step: the
\* local content is the attempted payload (kept in the copy), or it stays in
\* X, or the watcher still holds it with a pending intent.
KeptStep ==
    micro.pc = "resolver_copy" =>
        LET X == micro.id
            local == conversations[X]
        IN local # Undefined =>
            LET edit == sanitizeConversationForSync(local)
            IN \/ edit = flush[X].data
               \/ /\ conversations'[X] # Undefined
                  /\ sanitizeConversationForSync(conversations'[X]) = edit
               \/ /\ pending'[X] = "upsert" /\ latestById'[X] # Undefined
                  /\ sanitizeConversationForSync(latestById'[X]) = edit

ResolverLeavesResolvedState == [][ResolvedStep]_vars

\* C9: after the resolver completes for a conflict on X, X is the remote
\* state, its revision is the fetched one, it is clean; for an upsert the
\* attempted payload is stored under a new id with a conflict-copy title and
\* queued as a create; and no local edit of X made before the resolution
\* completes is lost.
C9_ResolverKeepsBothSides == [][ResolvedStep /\ KeptStep]_vars

\* The realtime entry (id, revision) that this step starts to process.
Processes(e) ==
    \/ /\ micro.pc = "none" /\ realtime /\ stream # <<>> /\ stream' = Tail(stream)
       /\ restarts' = restarts
       /\ ~drainInFlight /\ pendingById = <<>>
       /\ e = Head(stream)
    \/ /\ micro.pc \in {"drain_loop", "drain_skipped"}
       /\ pendingById # <<>>
       /\ e.conversationId = Head(pendingById).conversationId
       /\ e.revision = Head(pendingById).revision
       /\ e.deleted = Head(pendingById).deleted

Events ==
    [conversationId : Ids, revision : 1..(MaxRev + 1), deleted : BOOLEAN]

\* A step that starts to process an entry whose revision is known.
C10_SkipStep ==
    \A e \in Events :
        /\ Processes(e)
        /\ remoteRevisionById[e.conversationId] # NullRev
        /\ remoteRevisionById[e.conversationId] >= e.revision
        => /\ drain' = IdleCall
           /\ conversations' = conversations
           /\ remoteRevisionById' = remoteRevisionById
           /\ dirtyOpById' = dirtyOpById
           /\ lastErrorById' = lastErrorById
           /\ muteCountById' = muteCountById
           /\ micro'.pc = "drain_skipped"

\* C10: processing is skipped for a realtime entry whose revision is not
\* above the known remoteRevisionById: no GET is sent, the store and the
\* sync state of the id stay as they are.
C10_KnownRevisionSkipped == [][C10_SkipStep]_vars

\* An entry of a clean id has just been skipped: its revision is known.
C10_Witness ==
    /\ micro.pc = "drain_skipped"
    /\ dirtyOpById[micro.id] = NoOp
    /\ remoteRevisionById[micro.id] # NullRev
    /\ remoteRevisionById[micro.id] >= micro.revision
    /\ drain = IdleCall

\* tryFlush(id) sends a request in this step.
Sends(id) == flush'[id].pc = "sent" /\ flush'[id] # flush[id]

\* What a step that sends the request of id sends.
C11_SendStep ==
    \A id \in Ids : Sends(id) =>
        /\ dirtyOpById'[id] # NoOp
        /\ flush'[id].op = dirtyOpById'[id]
        /\ flush'[id].baseRevision = remoteRevisionById'[id]
        /\ flush'[id].op = "upsert" => flush'[id].data = pendingUpsertPayloadById'[id]
        /\ mode' = "http"

\* C11: the uploader never has two requests of one conversation out at the
\* same time; a request is sent only for a dirty id, with the dirty op, and
\* with remoteRevisionById[id] (null when there is none) as baseRevision.
C11_UploadsSerialized ==
    /\ [](\A id \in Ids : ~flush[id].overlaps)
    /\ [][C11_SendStep]_vars

\* C11 witness: a request of c1 with a known base revision is out while the
\* user has queued a newer payload for c1.
C11_Witness ==
    \E id \in Ids :
        /\ flush[id].pc = "sent" /\ flush[id].op = "upsert"
        /\ flush[id].baseRevision >= 1
        /\ dirtyOpById[id] = "upsert"
        /\ pendingUpsertPayloadById[id] # Undefined
        /\ pendingUpsertPayloadById[id] # flush[id].data

\* The revision an accepted write with this baseRevision returns.
RevisionAfter(baseRevision) == IF baseRevision = NullRev THEN 1 ELSE baseRevision + 1

\* The row of handler s is the tombstone an accepted DELETE with the
\* baseRevision of s has left, and no write was accepted since.
IsRetriedDelete(s) ==
    /\ reqs[s].op = "delete"
    /\ rows[reqs[s].key].present /\ rows[reqs[s].key].deleted
    /\ rows[reqs[s].key].revision = RevisionAfter(reqs[s].baseRevision)

\* What the statement and the lookup of a repeated DELETE do.
C12_RetryStep ==
    \A s \in Slots : IsRetriedDelete(s) =>
        /\ Executes(s) => /\ rows' = rows
                          /\ reqs'[s].pc = "lookup"
        /\ LooksUp(s) => /\ rows' = rows
                         /\ reqs'[s].result =
                                [kind |-> "conflict", deleted |-> TRUE,
                                 revision |-> RevisionAfter(reqs[s].baseRevision)]
                         /\ HttpStatus(reqs'[s].result) = 409

\* C12: a DELETE repeated with the same baseRevision after an accepted
\* DELETE (revision R), with no accepted write in between, is answered 409
\* with currentRevision R and deleted = true, and the row stays at R.
C12_RepeatedDeleteConflicts == [][C12_RetryStep]_vars

\* C12 witness: one DELETE with baseRevision 1 was accepted at revision 2 and
\* the same DELETE, run after it, holds its 409 answer.
C12_Witness ==
    \E s, t \in Slots :
        /\ s # t
        /\ reqs[s].pc = "done" /\ reqs[t].pc = "done"
        /\ reqs[s].op = "delete" /\ reqs[t].op = "delete"
        /\ reqs[s].baseRevision = 1 /\ reqs[t].baseRevision = 1
        /\ reqs[s].result = OkResult(2)
        /\ reqs[t].result = [kind |-> "conflict", revision |-> 2, deleted |-> TRUE]
        /\ rows[reqs[s].key].revision = 2
        /\ <<s, t>> \notin raced

\* Handler s runs the SELECT of a GET in this step.
Selects(s) == reqs[s].pc = "select" /\ reqs'[s].pc = "done"

\* An accepted PUT leaves its blob at the revision it returns; only accepted
\* writes change a row; a GET answers the row as it is.
C13_ReadStep ==
    /\ \A s \in Slots : Accepted(s) /\ reqs[s].op = "upsert" =>
           rows'[reqs[s].key] =
               [present |-> TRUE, revision |-> reqs'[s].result.revision,
                deleted |-> FALSE, data |-> reqs[s].data]
    /\ rows' # rows => \E s \in Slots : Accepted(s)
    /\ \A s \in Slots : Selects(s) /\ rows[reqs[s].key].present =>
           /\ HttpStatus(reqs'[s].result) = 200
           /\ reqs'[s].result.revision = rows[reqs[s].key].revision
           /\ reqs'[s].result.deleted = rows[reqs[s].key].deleted
           /\ ~rows[reqs[s].key].deleted => reqs'[s].data = rows[reqs[s].key].data

\* C13: after an accepted PUT of blob B that returned revision R, a GET of
\* the key before any other accepted write answers data = B, deleted = false
\* and revision R.
C13_GetReturnsWhatWasPut == [][C13_ReadStep]_vars

\* C13 witness: a GET holds the answer with the blob an accepted PUT with
\* baseRevision 1 wrote at revision 2.
C13_Witness ==
    \E s \in Slots :
        /\ reqs[s].pc = "done" /\ reqs[s].op = "get"
        /\ reqs[s].result = [kind |-> "row", revision |-> 2, deleted |-> FALSE]
        /\ reqs[s].data = SyncConversation("c1", <<"a">>, <<>>, <<>>)
        /\ rows[reqs[s].key].data = reqs[s].data
        /\ rows[reqs[s].key].revision = 2

\* What the statement and the lookup of a write with a numeric baseRevision do.
C14_BaseStep ==
    \A s \in Slots : reqs[s].baseRevision # NullRev =>
        LET row == rows[reqs[s].key]
            b == reqs[s].baseRevision
        IN /\ Executes(s) =>
                IF row.present /\ row.revision = b
                THEN /\ Accepted(s)
                     /\ reqs'[s].result.revision = b + 1
                     /\ rows'[reqs[s].key].revision = b + 1
                     /\ b # 0
                ELSE /\ rows' = rows
                     /\ reqs'[s].pc = "lookup"
           /\ LooksUp(s) =>
                /\ rows' = rows
                /\ reqs'[s].result =
                       IF row.present
                       THEN [kind |-> "conflict", revision |-> row.revision,
                             deleted |-> row.deleted]
                       ELSE [kind |-> "notfound", revision |-> 0, deleted |-> FALSE]
                /\ HttpStatus(reqs'[s].result) = IF row.present THEN 409 ELSE 404

\* C14: a PUT or DELETE with a numeric baseRevision b (0 included) is
\* accepted exactly when the key's row exists at revision b, and then
\* returns b + 1; otherwise the row is left alone and the answer is a
\* conflict with the current revision and deleted flag, or 404 without a
\* row. A write with baseRevision 0 is never accepted.
C14_NumericBaseMatchesExactly == [][C14_BaseStep]_vars

\* C14 witness: a PUT with baseRevision 0 on an existing row holds its
\* conflict answer, and the row is as it was.
C14_Witness ==
    \E s \in Slots :
        /\ reqs[s].pc = "done" /\ reqs[s].op = "upsert"
        /\ reqs[s].baseRevision = 0
        /\ reqs[s].result = [kind |-> "conflict", revision |-> 1, deleted |-> FALSE]
        /\ rows[reqs[s].key].revision = 1

\* ------------------------------------------------------------------------
\* Properties of the notifier
\* ------------------------------------------------------------------------

\* Handler s publishes (if its write was accepted) and responds in this step.
Responds(s) == reqs[s].pc = "done" /\ reqs'[s].pc = "idle"

\* Every element of seq occurs once.
NoRepeats(seq) == \A i, j \in 1..Len(seq) : seq[i] = seq[j] => i = j

\* What a step publishes.
C15_PublishStep ==
    /\ \A s \in Slots : Responds(s) =>
           IF reqs[s].result.kind = "ok"
           THEN /\ notified'.user = reqs[s].key[1]
                /\ notified'.conversationId = reqs[s].key[2]
                /\ notified'.revision = reqs[s].result.revision
                /\ notified'.revision = rows[reqs[s].key].revision
                      \/ rows[reqs[s].key].revision > notified'.revision
                /\ notified'.deleted = (reqs[s].op = "delete")
                /\ NoRepeats(notified'.calls)
                /\ Range(notified'.calls) =
                       {sub \in Subs : /\ SubscriberUser(sub) = reqs[s].key[1]
                                       /\ IsSubscribed(registry, sub)}
           ELSE notified'.calls = <<>>
    /\ (\A s \in Slots : ~Responds(s)) => notified'.calls = <<>>

\* C15: every accepted PUT or DELETE publishes one conversation_changed
\* event with the conversation id, the new revision and the deleted flag,
\* to every subscriber registered for the owning user and to no subscriber
\* of another user; a rejected write publishes none.
C15_AcceptedWritesPublishOnce == [][C15_PublishStep]_vars

\* C15 witness: an accepted DELETE at revision 2 was published to the two
\* subscribers of u1 while a subscriber of u2 is registered.
C15_Witness ==
    /\ notified.user = "u1" /\ notified.deleted /\ notified.revision = 2
    /\ Len(notified.calls) = 2
    /\ IsSubscribed(registry, "s3")

\* What a publish does when a callback throws or nobody is subscribed.
C16_ThrowStep ==
    \A s \in Slots : Responds(s) /\ reqs[s].result.kind = "ok" =>
        /\ notified'.throwers # {} =>
               /\ \A sub \in Range(registry[reqs[s].key[1]]) :
                      sub \in Range(notified'.calls)
               /\ notified'.status = 200
        /\ registry[reqs[s].key[1]] = <<>> =>
               /\ notified'.calls = <<>>
               /\ notified'.status = 200
               /\ registry' = registry /\ rows' = rows

\* C16: when the callback of one subscriber throws, the other subscribers
\* of the user still get the event and the publish, and the write that
\* published, complete without error; publishing to a user without
\* subscribers changes nothing.
C16_ThrowingSubscriberIsolated == [][C16_ThrowStep]_vars

\* C16 witness: the callback called first threw, the second subscriber was
\* still called and the write was answered 200.
C16_Witness ==
    /\ Len(notified.calls) = 2
    /\ notified.throwers = {notified.calls[1]}
    /\ notified.status = 200

\* ------------------------------------------------------------------------
\* Properties of the agent's start
\* ------------------------------------------------------------------------

\* The list request of the initial pull fails in this step.
ListFails == pull.pc \in {"list_sent", "list_replied"} /\ failures' # failures

\* The initial pull has ended with a failed list: the agent runs with the
\* transport left disabled.
PullGaveUp == pull.pc = "done" /\ mode = "disabled"

\* Uploads wait for the end of the initial pull; after a failed list they
\* wait for the next start of the agent.
C17_GateStep ==
    /\ \A id \in Ids : Sends(id) => mode' = "http" /\ pull'.pc = "done"
    /\ ListFails =>
           /\ pull'.pc = "done" /\ mode' = "disabled"
           /\ dirtyOpById' = dirtyOpById
    /\ (PullGaveUp /\ restarts' = restarts) =>
           /\ mode' = "disabled" /\ pull'.pc = "done"
           /\ \A id \in Ids :
                  /\ flush'[id].pc = "idle"
                  /\ dirtyOpById[id] # NoOp => dirtyOpById'[id] # NoOp

\* C17: the client sends no upsert or delete request before the initial
\* pull has finished and switched the transport to live; if the list request
\* fails the transport stays disabled for the life of the agent, no write
\* request is sent and every dirtyOp that was set stays set.
C17_UploadsWaitForPull ==
    /\ [](pull.pc # "done" => mode = "disabled" /\ \A id \in Ids : flush[id].pc = "idle")
    /\ [][C17_GateStep]_vars

\* C17 witness: the list failed, and a change of c1 made afterwards is held
\* by the uploader as a dirty upsert that was not sent.
C17_Witness ==
    /\ PullGaveUp
    /\ failures = 1
    /\ dirtyOpById["c1"] = "upsert"
    /\ pendingUpsertPayloadById["c1"] # Undefined
    /\ flush["c1"].pc = "idle"
    /\ pending["c1"] = NoOp

\* The initial pull ends in this step with the switch to the live transport,
\* the reconcile and the flush of the dirty ids.
PullFinishes == pull.pc # "done" /\ pull'.pc = "done" /\ mode' = "http"

\* The request of id the uploader has sent in this step, if any.
SentAs(id, op) == flush'[id].pc = "sent" /\ flush'[id].op = op

\* What the end of the initial pull does with the persisted dirty ops.
C18_ReconcileStep ==
    PullFinishes => \A id \in Ids :
        /\ dirtyOpById[id] = "upsert" =>
               IF conversations'[id] = Undefined
                  \/ ~isConversationSyncEligible(conversations'[id])
               THEN /\ dirtyOpById'[id] = NoOp
                    /\ flush'[id].pc = "idle"
                    /\ id \in dropped'
               ELSE /\ dirtyOpById'[id] = "upsert"
                    /\ pendingUpsertPayloadById'[id] =
                           sanitizeConversationForSync(conversations'[id])
                    /\ SentAs(id, "upsert")
                    /\ flush'[id].data = pendingUpsertPayloadById'[id]
        /\ dirtyOpById[id] = "delete" =>
               /\ dirtyOpById'[id] = "delete"
               /\ SentAs(id, "delete")
        /\ dirtyOpById[id] = NoOp =>
               /\ dirtyOpById'[id] = NoOp
               /\ flush'[id].pc = "idle"

\* C18: after the initial pull, a persisted dirty upsert whose conversation
\* is missing or not sync-eligible is cleared and nothing is sent for it; any
\* other dirty upsert gets its payload rebuilt from the chat store and is
\* queued as an upsert; a persisted dirty delete stays set and is flushed as
\* a delete. The reconcile never turns an upsert into a delete.
C18_ReconcileDropsOrRebuilds == [][C18_ReconcileStep]_vars

\* C18 witness: the reconcile has dropped the dirty upsert of c1, whose
\* conversation is in the chat store but is a placeholder, and has sent
\* nothing for it.
C18_Witness ==
    /\ "c1" \in dropped
    /\ conversations["c1"] # Undefined
    /\ ~isConversationSyncEligible(conversations["c1"])
    /\ dirtyOpById["c1"] = NoOp
    /\ flush["c1"].pc = "idle"
    /\ mode = "http"

\* The agents that run: created and not stopped.
ActiveAgents == {n \in Agents : agents[n].created /\ ~agents[n].stopped}

\* C19: at most one sync agent is active, whatever the sequence of start
\* and stop calls.
C19_AtMostOneAgentActive == Cardinality(ActiveAgents) <= 1

\* ------------------------------------------------------------------------
\* Properties of stop()
\* ------------------------------------------------------------------------

\* A request of the agent leaves in this step.
SendsAnyRequest ==
    \/ \E id \in Ids : /\ flush'[id].pc \in {"sent", "get_sent"}
                       /\ flush'[id] # flush[id]
    \/ pull'.pc \in {"list_sent", "get_sent"} /\ pull' # pull
    \/ drain'.pc = "sent" /\ drain' # drain

\* A step of the user: the chat store changes by the user's hand.
UserStep == edits' # edits

\* What a step after stop() leaves alone.
C20_StoppedStep ==
    stopped =>
        /\ ~UserStep => conversations' = conversations
        /\ remoteRevisionById' = remoteRevisionById
        /\ dirtyOpById' = dirtyOpById
        /\ lastErrorById' = lastErrorById
        /\ mode' = mode
        /\ ~SendsAnyRequest

\* C20: after stop() the watcher is unsubscribed and its timers are
\* cancelled, the realtime connection is closed, and a callback of the agent
\* that resumes afterwards changes nothing in the chat store, the sync state
\* or the transport mode and sends no request.
C20_StoppedAgentIsInert ==
    /\ [](stopped => /\ ~realtime /\ stream = <<>>
                     /\ \A id \in Ids : pending[id] = NoOp /\ latestById[id] = Undefined)
    /\ [][C20_StoppedStep]_vars

\* ------------------------------------------------------------------------
\* Properties of the realtime channel
\* ------------------------------------------------------------------------

\* The ids with an entry in the pending map.
PendingIds == {pendingById[i].conversationId : i \in 1..Len(pendingById)}

\* The revision of the pending entry of id in map m (0: no entry).
PendingRevision(m, id) ==
    IF \E i \in 1..Len(m) : m[i].conversationId = id
    THEN (CHOOSE e \in Range(m) : e.conversationId = id).revision
    ELSE 0

\* A continuation of the drain loop waits.
DrainContinues == micro.pc \in {"drain_loop", "drain_skipped", "drain_apply"}

\* The listener takes an event from the stream in this step.
Receives == realtime /\ stream # <<>> /\ stream' = Tail(stream)

\* At most one entry per id; one drain loop, one apply at a time.
C21_OneDrain ==
    /\ Cardinality(PendingIds) = Len(pendingById)
    /\ ~drain.overlaps
    /\ (drain.pc # "idle" \/ DrainContinues) => drainInFlight
    /\ DrainContinues => drain.pc \in {"idle", "applying"}
    /\ pendingById # <<>> => drainInFlight

\* An event received while the drain loop runs is coalesced into the map.
C21_CoalesceStep ==
    (Receives /\ drainInFlight) =>
        LET e == Head(stream)
        IN /\ drain' = drain
           /\ PendingRevision(pendingById', e.conversationId) =
                  IF PendingRevision(pendingById, e.conversationId) > e.revision
                  THEN PendingRevision(pendingById, e.conversationId)
                  ELSE e.revision
           /\ \A id \in Ids \ {e.conversationId} :
                  PendingRevision(pendingById', id) = PendingRevision(pendingById, id)

DrainFinished ==
    /\ realtime /\ stream = <<>> /\ pendingById = <<>>
    /\ drain.pc = "idle" /\ micro = NoMicro /\ ~drainInFlight

\* The highest of a non-empty set of revisions.
Highest(S) == CHOOSE x \in S : \A y \in S : y <= x

\* The realtime channel sends a GET in this step.
SendsDrainGet == drain'.pc = "sent" /\ drain.pc # "sent"

\* C22 as stated: after the drain of a burst of MaxRev writes of which the
\* client received and applied at least one event, the client has fetched the
\* conversation once, and holds the last revision.
C22_ExactlyOneGet ==
    \A id \in UserIds :
        (/\ DrainFinished
         /\ rows[<<Me, id>>].revision = MaxRev
         /\ obtained[id] # {})
        => /\ Cardinality(obtained[id]) = 1
           /\ remoteRevisionById[id] = MaxRev

\* A GET of the realtime channel is sent for a clean id, for an event above
\* the revision held, and never after the last revision was fetched.
C22_GetStep ==
    SendsDrainGet =>
        LET id == drain'.id
        IN /\ dirtyOpById[id] = NoOp
           /\ (remoteRevisionById[id] = NullRev
                   \/ remoteRevisionById[id] < drain'.expected)
           /\ MaxRev \notin obtained[id]

\* The answer of the GET is at least the revision of the event, and it is the
\* revision the client holds after the apply.
C22_AnswerStep ==
    /\ (drain.pc = "replied" /\ drain.reply.kind = "ok")
           => (drain.reply.revision >= drain.expected /\ drain.attempt = 0)
    /\ (DrainFinished /\ obtained["c1"] # {})
           => remoteRevisionById["c1"] = Highest(obtained["c1"])

\* C22 (amended): the realtime channel sends one GET per drain iteration, only
\* for an event above the revision held; the answer carries the revision of
\* the server at that time, and once the last revision of the burst was
\* fetched no further GET is sent: after the drain the client holds it.
C22_CoalescedGets ==
    /\ [][C22_GetStep]_vars
    /\ []C22_AnswerStep

\* C22 witness: all writes of the burst were accepted before the first GET was
\* answered; later events were skipped, and the drain has finished with one
\* fetched revision, the last one.
C22_Witness ==
    /\ DrainFinished
    /\ rows[<<Me, "c1">>].revision = MaxRev
    /\ obtained["c1"] = {MaxRev}
    /\ remoteRevisionById["c1"] = MaxRev

\* ------------------------------------------------------------------------
\* The event stream of GET /api/sync/events
\* ------------------------------------------------------------------------

\* What holds of a stream at any time: its output starts with the retry hint
\* and the ready event; it is closed before its age passes the TTL; once
\* closed it is out of the registry and holds no timer; controller.close()
\* closed it at most once.
C23_StreamState ==
    \A sub \in EventSubs :
        LET st == sse[sub]
        IN /\ st.started =>
                (Len(st.out) >= 2 /\ st.out[1] = "retry" /\ st.out[2] = "ready")
           /\ (st.started /\ st.age > TtlTicks) => st.closed
           /\ st.closed =>
                (/\ ~IsSubscribed(registry, sub)
                 /\ st.pingHandle = 0 /\ st.ttlHandle = 0
                 /\ st.controller # "readable")
           /\ st.closeCalls <= 1
           /\ (~st.started) => ~IsSubscribed(registry, sub)

\* A closed stream stays closed, and nothing more is enqueued on it.
C23_ClosedStep ==
    \A sub \in EventSubs :
        sse[sub].closed =>
            /\ sse'[sub].closed
            /\ sse'[sub].out = sse[sub].out
            /\ sse'[sub].closeCalls = sse[sub].closeCalls

\* C23: every stream of /api/sync/events starts with the retry hint and the
\* ready event and is closed no later than the TTL after it opened; once
\* closed, by the TTL, an abort or a cancel, its subscriber is out of the
\* registry, its timers are cleared, nothing more is enqueued on it, and it
\* was closed once.
C23_StreamClosesOnce ==
    /\ []C23_StreamState
    /\ [][C23_ClosedStep]_vars

\* C23 witness: an idle stream that sent both pings was closed by the TTL
\* timer, after the close event, and the abort of the request came after.
C23_Witness ==
    LET st == sse["s1"]
    IN /\ st.closed /\ st.age = TtlTicks /\ st.aborted
       /\ st.out = <<"retry", "ready", "ping", "ping", "close">>
       /\ st.closeCalls = 1

\* ------------------------------------------------------------------------
\* conversationId validation
\* ------------------------------------------------------------------------

\* The id consists of characters of [A-Za-z0-9_-] and its length is 1..limit.
WellFormedId(id, limit) ==
    /\ Len(id) \in 1..limit
    /\ {id[i] : i \in 1..Len(id)} \subseteq SafeChars

\* The request at hand has been through the id check.
IdChecked == idcheck.pc \in {"handler", "answered"}

\* C24 as stated: an id is accepted iff it is URL-safe and 1..128 long.
C24_LimitIs128 ==
    IdChecked => (idcheck.rejected <=> ~WellFormedId(idcheck.id, 128))

\* C24 (amended): GET, PUT and DELETE accept a conversationId iff it is
\* URL-safe and 1..conversationIdMaxLen long, which is 128 unless
\* EW_SYNC_CONVERSATION_ID_MAX_LEN sets another limit; any other id is answered
\* 400 with the store not used and nothing published.
C24_IdValidated ==
    /\ IdChecked => (idcheck.rejected <=> ~WellFormedId(idcheck.id, idcheck.maxLen))
    /\ (IdChecked /\ idcheck.rejected) =>
           (/\ idcheck.status = 400 /\ idcheck.pc = "answered"
            /\ ~idcheck.accessed /\ ~idcheck.published)
    /\ idcheck.pc # "off" =>
           idcheck.maxLen \in {DefaultMaxLen, 0, 64, 129}

\* C24 witness: under the default limit a DELETE with an id of 128 characters
\* has passed the check and used the store.
C24_Witness ==
    /\ idcheck.pc = "answered" /\ idcheck.maxLen = DefaultMaxLen
    /\ idcheck.method = "DELETE" /\ Len(idcheck.id) = 128
    /\ ~idcheck.rejected /\ idcheck.accessed

\* ------------------------------------------------------------------------
\* Restart with a dirty upsert
\* ------------------------------------------------------------------------

\* The initial pull is fetching or applying id: the id was clean when the
\* list arrived.
PullFetches(id) ==
    \/ /\ pull.pc \in {"get_sent", "get_replied"}
       /\ pull.items[pull.idx].conversationId = id
    \/ micro.pc = "pull_apply" /\ micro.id = id

\* The initial pull after a restart is under way, id is dirty with an upsert,
\* and neither the user nor the watcher is changing it.
RestartPull(id) ==
    /\ restarts >= 1 /\ restarts' = restarts
    /\ pull.pc # "done"
    /\ dirtyOpById[id] = "upsert"
    /\ ~PullFetches(id)
    /\ ~UserStep /\ pending[id] = NoOp

\* The server holds a later revision of id than the client.
ServerAhead(id) ==
    /\ remoteRevisionById[id] # NullRev
    /\ rows[<<Me, id>>].revision > remoteRevisionById[id]

\* The pull leaves the revision, the conversation and the dirty op of id.
PullLeaves(id) ==
    /\ remoteRevisionById'[id] = remoteRevisionById[id]
    /\ conversations'[id] = conversations[id]
    /\ dirtyOpById'[id] = "upsert"

\* C25 as stated: the initial pull after a restart leaves every dirty upsert
\* whose revision the server has passed as it is, for the upload that follows.
C25_PullKeepsDirtyUpsert ==
    [][\A id \in Ids : (RestartPull(id) /\ ServerAhead(id)) => PullLeaves(id)]_vars

\* The same for an id whose conversation is in the chat store and can sync.
C25_PullStep ==
    \A id \in Ids :
        (/\ RestartPull(id)
         /\ conversations[id] # Undefined
         /\ isConversationSyncEligible(conversations[id]))
        => PullLeaves(id)

\* The upload after a restart: sent once the pull is over, with
\* remoteRevisionById[id] as its base,
\* and answered 409, the row left alone, when the server is beyond the base.
C25_UploadStep ==
    \A id \in Ids :
        /\ (restarts >= 1 /\ Sends(id) /\ flush'[id].op = "upsert")
               => (/\ flush'[id].baseRevision = remoteRevisionById'[id]
                   /\ pull'.pc = "done")
        /\ (/\ restarts >= 1
            /\ flush[id].pc = "sent" /\ flush'[id].pc = "replied"
            /\ flush[id].op = "upsert"
            /\ flush[id].baseRevision # NullRev
            /\ rows[<<Me, id>>].revision > flush[id].baseRevision)
               => (/\ flush'[id].reply.kind = "conflict"
                   /\ flush'[id].reply.revision = rows[<<Me, id>>].revision
                   /\ rows' = rows)

\* The resolver completes after a restart.
C25_ResolveStep == restarts >= 1 => ResolvedStep

\* C25 (amended): after a restart with a dirty upsert of id whose revision the
\* server has passed, and with the conversation of id in the chat store and
\* eligible, the initial pull leaves remoteRevisionById[id] and the local
\* conversation; the upload is sent with that revision as its base and is
\* answered 409; the resolver stores the attempt under a new id and makes id
\* the remote version.
C25_RestartReconciles == [][C25_PullStep /\ C25_UploadStep /\ C25_ResolveStep]_vars

\* C25 witness: after the restart the upload of the dirty id, sent with a
\* base below the server's revision, was answered 409, and the resolver is
\* about to complete with the remote version it fetched.
C25_Witness ==
    /\ restarts = 1
    /\ micro.pc = "resolver_apply" /\ micro.id = "c1"
    /\ flush["c1"].op = "upsert"
    /\ flush["c1"].baseRevision # NullRev
    /\ flush["c1"].reply.revision > flush["c1"].baseRevision

\* ------------------------------------------------------------------------
\* User partitioning
\* ------------------------------------------------------------------------

\* The keys of the other users.
KeysOfOthers(userId) == {k \in Users \X Ids : k[1] # userId}

\* A step of the handler of a request of user u leaves the rows of the other
\* users, and what it reads, writes and answers is the row of u alone.
C26_HandlerStep ==
    \A s \in Slots :
        LET r == reqs[s]
            u == r.key[1]
        IN (r.pc \in {"stmt", "select", "lookup"} /\ reqs'[s] # r) =>
            /\ \A k \in KeysOfOthers(u) : rows'[k] = rows[k]
            /\ r.pc = "stmt" =>
                   rows'[r.key] = WriteStatement(r.op, rows[r.key], r.baseRevision, r.data)
            /\ r.pc = "select" =>
                   /\ reqs'[s].data = GetReply(rows[r.key]).data
                   /\ reqs'[s].result.revision = GetReply(rows[r.key]).revision
                   /\ reqs'[s].result.kind = "notfound" <=> ~rows[r.key].present
            /\ r.pc = "lookup" =>
                   reqs'[s].result = LookupResult(rows[r.key], r.baseRevision)

\* The list of a user holds the user's own rows, and no step but a handler's
\* statement changes a row.
C26_ListStep ==
    /\ listed'.user # "" =>
           /\ rows' = rows
           /\ \A item \in listed'.items :
                 LET row == rows[<<listed'.user, item.conversationId>>]
                 IN row.present /\ row.revision = item.revision
                        /\ row.deleted = item.deleted
           /\ \A id \in Ids :
                 rows[<<listed'.user, id>>].present
                     => \E item \in listed'.items : item.conversationId = id

\* An accepted write is published to the streams of its user alone.
C26_PublishStep ==
    notified'.user # "" =>
        \A sub \in Range(notified'.calls) : SubscriberUser(sub) = notified'.user

\* C26: the requests of a user read, change and reveal the rows of that user
\* alone, even for a conversationId another user holds too, so that what a
\* user observes does not depend on the requests of another; and the events
\* of a user's writes reach that user's streams only.
C26_UsersPartitioned == [][C26_HandlerStep /\ C26_ListStep /\ C26_PublishStep]_vars

\* C26 witness: both users hold conversation c1, at different revisions; the
\* event stream of u2 is open and the GET of u2 is answered with u2's row.
C26_Witness ==
    /\ rows[<<"u1", "c1">>].present /\ rows[<<"u2", "c1">>].present
    /\ rows[<<"u1", "c1">>].revision > rows[<<"u2", "c1">>].revision
    /\ IsSubscribed(registry, "s3")
    /\ reqs[1].pc = "done" /\ reqs[1].op = "get" /\ reqs[1].key = <<"u2", "c1">>
    /\ reqs[1].result.revision = rows[<<"u2", "c1">>].revision

\* ------------------------------------------------------------------------
\* Presence of a key, and the list
\* ------------------------------------------------------------------------

\* A handler's statement was accepted for key k in this step, with the
\* revision the row now has.
AcceptedWrite(k) ==
    \E s \in Slots :
        /\ reqs[s].pc = "stmt" /\ reqs[s].key = k
        /\ reqs'[s].pc = "done" /\ reqs'[s].result.kind = "ok"
        /\ reqs'[s].result.revision = rows'[k].revision

\* A present key stays present; its row changes, between live and tombstoned
\* or not, only by an accepted write, with a higher revision.
C27_RowStep ==
    \A k \in Users \X Ids :
        /\ rows[k].present => rows'[k].present
        /\ rows'[k] # rows[k] =>
              /\ AcceptedWrite(k)
              /\ rows'[k].revision > rows[k].revision
              /\ rows'[k].deleted = (reqs[1].op = "delete")

\* The answer of the list of a user: one row for each present key of the
\* user, tombstones included, with the revision and the deleted flag of the key.
C27_ListState ==
    listed.user # "" =>
        LET present == {id \in Ids : rows[<<listed.user, id>>].present}
        IN /\ Cardinality(listed.items) = Cardinality(present)
           /\ \A id \in present :
                 [conversationId |-> id, revision |-> rows[<<listed.user, id>>].revision,
                  deleted |-> rows[<<listed.user, id>>].deleted] \in listed.items

\* C27: a key that is present is never absent again; it goes between live
\* and tombstoned only by accepted writes, each with a higher revision; the
\* list of a user has exactly one row for every present key of the user,
\* tombstones included, with its current revision and deleted flag.
C27_PresentKeysListed ==
    /\ [][C27_RowStep]_vars
    /\ []C27_ListState

\* C27 witness: the list of u1 was answered with the tombstone of c1, which
\* was written over an earlier revision.
C27_Witness ==
    /\ listed.user = "u1"
    /\ \E item \in listed.items :
          item.conversationId = "c1" /\ item.deleted /\ item.revision >= 2

\* ------------------------------------------------------------------------
\* The finally block of tryFlush
\* ------------------------------------------------------------------------

\* The tryFlush of id reaches its finally block in this step: the exchange
\* that was out is over, and the flag is clear or a new request is out.
FlushFinishes(id) ==
    /\ restarts' = restarts
    /\ flush[id].pc # "idle"
    /\ flush'[id] # flush[id]
    /\ flush'[id].pc \in {"idle", "sent"}

\* The dirty intent of id was changed to the other kind while the request
\* was out.
FlippedInFlight(id) ==
    /\ flush[id].pc # "idle"
    /\ dirtyOpById[id] # NoOp
    /\ dirtyOpById[id] # flush[id].op

\* The finally block as the code has it: it reads the dirty op only after
\* the answer was handled, and flushes again when that op is set and differs
\* from the op that was sent; a new request is never of the kind just sent.
FinallyReadsOpAfterAnswer ==
    [][\A id \in Ids : FlushFinishes(id) =>
          IF dirtyOpById'[id] # NoOp /\ dirtyOpById'[id] # flush[id].op
              /\ mode' # "disabled"
          THEN /\ flush'[id].pc = "sent" /\ flush'[id].op = dirtyOpById'[id]
               /\ flush'[id].baseRevision = remoteRevisionById'[id]
          ELSE flush'[id].pc = "idle"]_vars

\* C28: when the tryFlush of an id finishes, the in-flight flag is cleared;
\* if the dirty intent was changed to the other kind while the request was
\* out, a flush of the new intent starts at once, and otherwise no further
\* request is started.
C28_FlippedIntentFlushed ==
    [][\A id \in Ids : FlushFinishes(id) =>
          IF FlippedInFlight(id)
          THEN flush'[id].pc = "sent" /\ flush'[id].op = dirtyOpById[id]
          ELSE flush'[id].pc = "idle"]_vars

\* An upsert of c1 is out and the delete of c1 was queued behind it.
C28_Witness ==
    /\ flush["c1"].pc = "replied" /\ flush["c1"].reply.kind = "ok"
    /\ flush["c1"].op = "upsert" /\ dirtyOpById["c1"] = "delete"

\* ------------------------------------------------------------------------
\* The resolver's GET fails
\* ------------------------------------------------------------------------

FetchError == "conflict: failed to fetch remote"

\* The resolver's GET for the 409 of id fails in this step: no answer, or an
\* answer that is not ok; the handler returns and tryFlush ends.
ResolverGetFails(id) ==
    /\ restarts' = restarts /\ micro.pc = "none"
    /\ flush[id].pc \in {"get_sent", "get_replied"}
    /\ flush'[id] # flush[id]
    /\ flush'[id].pc \in {"idle", "sent"}

\* The failed GET leaves the chat store, the known revision and the dirty op
\* of id as they were and records the error; the error is only gone again
\* where the finally block of tryFlush at once began a new attempt with a
\* flipped intent.
C29_FailedGetStep ==
    \A id \in Ids : ResolverGetFails(id) =>
        /\ conversations' = conversations
        /\ remoteRevisionById'[id] = remoteRevisionById[id]
        /\ dirtyOpById[id] # NoOp /\ dirtyOpById'[id] = dirtyOpById[id]
        /\ IF flush'[id].pc = "sent"
           THEN flush'[id].op = dirtyOpById[id] /\ flush'[id].op # flush[id].op
           ELSE lastErrorById'[id] = FetchError

\* A conversation that carries the attempted payload of a conflict under a
\* new id appears only in a step of the resolver whose GET was answered ok,
\* for an upsert; that resolver then ends with the dirty op of the original
\* id cleared, so the attempt is not made again.
C29_CopyStep ==
    /\ \A copyId \in Ids :
          (/\ conversations[copyId] = Undefined
           /\ conversations'[copyId] # Undefined
           /\ \E id \in Ids \ {copyId} :
                 flush[id].pc # "idle" /\ flush[id].op = "upsert"
                 /\ IsCopyOf(conversations'[copyId], flush[id].data)) =>
              \E id \in Ids \ {copyId} :
                 /\ flush[id].pc = "get_replied" /\ flush[id].reply.kind = "ok"
                 /\ flush[id].op = "upsert"
                 /\ IsCopyOf(conversations'[copyId], flush[id].data)
                 /\ micro'.pc = "resolver_copy" /\ micro'.id = id
                 /\ \A other \in Ids \ {copyId} : conversations'[other] = conversations[other]
    /\ micro.pc = "resolver_apply" =>
          /\ flush[micro.id].reply.kind = "ok"
          /\ dirtyOpById'[micro.id] = NoOp

\* C29: when the resolver's GET fails during the handling of a 409, no
\* conflict copy is created, the chat store and remoteRevision[id] are
\* unchanged, dirtyOp[id] stays set and an error is recorded for id; a
\* conflict copy is created only on an attempt whose GET succeeded, and that
\* attempt then ends, so that repeated 409s of one attempted edit give at most
\* one copy.
C29_FailedGetMakesNoCopy == [][C29_FailedGetStep /\ C29_CopyStep]_vars

\* C29 witness: the upsert of c1 was answered 409 and the resolver's GET
\* failed: the error is recorded, the upsert is still dirty, nothing is in
\* flight and no copy exists.
C29_Witness ==
    /\ lastErrorById["c1"] = FetchError /\ dirtyOpById["c1"] = "upsert"
    /\ flush["c1"].pc = "idle" /\ conversations["c1"] # Undefined
    /\ conversations["c2"] = Undefined /\ rows[<<Me, "c1">>].present

\* The copy is made in an attempt whose GET was answered.
C29_CopyOnAnsweredGet ==
    /\ micro.pc = "resolver_copy" /\ micro.id = "c1"
    /\ flush["c1"].reply.kind = "ok"
    /\ IsCopyOf(conversations["c2"], flush["c1"].data)

\* ------------------------------------------------------------------------
\* No automatic retry after a 409
\* ------------------------------------------------------------------------

\* A PUT / DELETE of id is sent in this step.
SendsWrite(id) == flush'[id].pc = "sent" /\ flush'[id] # flush[id]

\* The write of id was answered 409 and its handling has not ended.
Conflicted(id) ==
    \/ flush[id].pc = "replied" /\ flush[id].reply.kind = "conflict"
    \/ flush[id].pc \in {"get_sent", "get_replied"}

\* What makes the uploader send: the watcher's debounce fires with an intent
\* for id, the resolver queues its copy, the agent reconciles and flushes at
\* the end of the initial pull, or the intent of id was flipped by the
\* watcher while the last request was out.
NewTrigger(id) ==
    \/ pending[id] # NoOp /\ pending'[id] = NoOp
    \/ micro.pc = "resolver_copy" /\ micro.copy.id = id
    \/ pull.pc # "done" /\ pull'.pc = "done"
    \/ /\ flush[id].pc # "idle"
       /\ dirtyOpById[id] # flush[id].op
       /\ flush'[id].op = dirtyOpById[id]

\* The uploader takes the 409 in this step (the answer is not lost on the
\* network, the page is not reloaded).
Takes409(id) ==
    /\ flush[id].pc = "replied" /\ flush[id].reply.kind = "conflict"
    /\ flush'[id] # flush[id]
    /\ restarts' = restarts /\ failures' = failures

C30_ConflictStep ==
    \A id \in Ids :
        /\ (Takes409(id) /\ mode # "disabled") =>
              /\ flush'[id].pc = "get_sent"
              /\ flush'[id].op = flush[id].op
              /\ flush'[id].data = flush[id].data
              /\ flush'[id].baseRevision = flush[id].baseRevision
              /\ dirtyOpById'[id] = dirtyOpById[id]
              /\ remoteRevisionById'[id] = remoteRevisionById[id]
        /\ (Conflicted(id) /\ SendsWrite(id)) =>
              /\ flush'[id].op # flush[id].op
              /\ dirtyOpById[id] = flush'[id].op

C30_SendStep == \A id \in Ids : SendsWrite(id) => NewTrigger(id)

\* C30: a write answered 409 is handed to the resolver; the uploader sends
\* nothing more for the id on its own, and never the same write with the same
\* baseRevision again; a request for the id is sent only after a new trigger.
C30_NoRetryAfter409 == [][C30_ConflictStep /\ C30_SendStep]_vars

\* C30 witness: the DELETE of c1 was answered 409 and is with the resolver,
\* whose GET is out; the delete is still the dirty intent.
C30_Witness ==
    /\ flush["c1"].pc = "get_sent" /\ flush["c1"].op = "delete"
    /\ dirtyOpById["c1"] = "delete" /\ pending["c1"] = NoOp
    /\ rows[<<Me, "c1">>].revision > flush["c1"].baseRevision

\* ------------------------------------------------------------------------
\* The realtime channel and a dirty id
\* ------------------------------------------------------------------------

\* The realtime channel works on id in this step: the answer of its GET is
\* taken, its muted apply ends, or the drain loop applies a tombstone.
RealtimeWorksOn(id) ==
    /\ edits' = edits /\ restarts' = restarts
    /\ \/ drain.pc = "replied" /\ drain.id = id /\ micro'.pc = "drain_apply"
       \/ micro.pc = "drain_apply" /\ micro.id = id
       \/ /\ micro.pc \in {"drain_loop", "drain_skipped"}
          /\ micro'.pc = "drain_apply" /\ micro'.id = id

\* The step writes the local conversation or the known revision of id.
WritesLocal(id) ==
    \/ conversations'[id] # conversations[id]
    \/ remoteRevisionById'[id] # remoteRevisionById[id]

\* The dirty test as the code has it: it is made when the entry is taken
\* from the queue, before the GET is sent, and before a tombstone is applied.
RealtimeTestsDirtyAtStart ==
    [][\A id \in Ids :
          /\ (drain'.pc = "sent" /\ drain.pc # "sent" /\ drain'.id = id) =>
                dirtyOpById[id] = NoOp
          /\ (micro.pc \in {"drain_loop", "drain_skipped"} /\ micro'.pc = "drain_apply"
                /\ micro'.id = id) => dirtyOpById[id] = NoOp]_vars

\* C31: the realtime channel writes the local conversation of id or
\* remoteRevision[id] only in moments when dirtyOp[id] is not set.
C31_RealtimeSparesDirty ==
    [][\A id \in Ids : (RealtimeWorksOn(id) /\ WritesLocal(id)) =>
          dirtyOpById[id] = NoOp]_vars

\* The GET of the realtime channel for c1 is answered with a live blob while
\* the user's edit of c1 is dirty.
C31_Witness ==
    /\ drain.pc = "replied" /\ drain.id = "c1" /\ drain.reply.kind = "ok"
    /\ ~drain.reply.deleted /\ dirtyOpById["c1"] = "upsert"

\* ------------------------------------------------------------------------
\* The mute registry
\* ------------------------------------------------------------------------

\* withConversationMuted(id, fn) is called: the counter is raised and fn
\* starts.
MutedCall(id) ==
    /\ muting[id].open < MaxNest
    /\ muting' = [muting EXCEPT ![id] = [open |-> @.open + 1, last |-> "called"]]
    /\ Commit(MuteEnter(Cur, id))

\* fn returns, or throws: the finally block runs either way.
MutedEnds(id, how) ==
    /\ muting[id].open > 0
    /\ muting' = [muting EXCEPT ![id] = [open |-> @.open - 1, last |-> how]]
    /\ Commit(MuteExit(Cur, id))

MutedReturns(id) == MutedEnds(id, "returned")

MutedThrows(id) == MutedEnds(id, "threw")

MuteStep ==
    \/ \E id \in Ids : MutedCall(id)
    \/ \E id \in Ids : MutedReturns(id)
    \/ \E id \in Ids : MutedThrows(id)

NextMute ==
    /\ MuteStep
    /\ UNCHANGED <<watch, change, tried>>
    /\ UNCHANGED <<rows, updatedOrder, stream, serverVars, lifecycleVars, sse, idcheck, listed>>
    /\ CountersKept

SpecMute == Init /\ [][NextMute]_vars

\* The counter of id is the number of calls on id that have started and not
\* ended, never negative, and the id is muted exactly while that number is
\* positive.
C32_CounterState ==
    \A id \in Ids :
        /\ muteCountById[id] = muting[id].open
        /\ muteCountById[id] >= 0
        /\ isMuted(Cur, id) <=> muting[id].open > 0

\* A call or an end on one id, by return or by throw, moves the counter of
\* that id by one and leaves the other ids as they were.
C32_CounterStep ==
    \A id \in Ids :
        /\ muting'[id].open > muting[id].open => muteCountById'[id] = muteCountById[id] + 1
        /\ muting'[id].open < muting[id].open => muteCountById'[id] = muteCountById[id] - 1
        /\ muting'[id] = muting[id] =>
              /\ muteCountById'[id] = muteCountById[id]
              /\ isMuted(Cur, id)' = isMuted(Cur, id)

clearTimeout(w, timer) == [w EXCEPT !.timers = {t \in @ : t.timer # timer}]

\* setTimeout(() => flushIntent(id), delay): the handle is the number of the
\* mutation that set it.
setTimeout(w, id, delay) ==
    [w EXCEPT !.timers = @ \cup {[timer |-> w.made, id |-> id, at |-> w.now + delay]}]

\* flushIntent with the clock: the entry and its timer go, the intent is
\* handed to onUpsert / onDelete.
flushIntentTimed(w, id) ==
    LET entry == w.pending[id]
    IN IF entry.kind = "none" THEN w
       ELSE [clearTimeout(w, entry.timer) EXCEPT
                !.pending[id] = NoEntry,
                !.handed = [id |-> id, kind |-> entry.kind, at |-> w.now,
                            firstQueuedAt |-> entry.firstQueuedAt, seen |-> w.seen[id]]]

Min(a, b) == IF a <= b THEN a ELSE b

\* Variant: a queueIntent whose maxWait age starts again with every mutation.
queueIntentRestartsAge(w, id, kind) ==
    LET existing == w.pending[id]
        w1 == IF existing.kind # "none" THEN clearTimeout(w, existing.timer) ELSE w
    IN [setTimeout(w1, id, DebounceTicks) EXCEPT
           !.pending[id] = [kind |-> kind, timer |-> w.made, firstQueuedAt |-> w.now]]

\* queueIntent with the clock (now is w.now).
queueIntentTimed(w, id, kind) ==
    LET existing == w.pending[id]
    IN IF existing.kind = "none" \/ existing.kind # kind
       THEN LET w1 == IF existing.kind # "none" THEN clearTimeout(w, existing.timer) ELSE w
            IN [setTimeout(w1, id, DebounceTicks) EXCEPT
                   !.pending[id] = [kind |-> kind, timer |-> w.made, firstQueuedAt |-> w.now]]
       ELSE LET w1 == clearTimeout(w, existing.timer)
                elapsed == w.now - existing.firstQueuedAt
                remainingMaxWait == IF MaxWaitTicks - elapsed > 0
                                    THEN MaxWaitTicks - elapsed ELSE 0
            IN IF remainingMaxWait = 0
               THEN flushIntentTimed(w1, id)
               ELSE [setTimeout(w1, id, Min(DebounceTicks, remainingMaxWait)) EXCEPT
                        !.pending[id].timer = w.made]

\* The watcher observes a mutation of id that queues an intent of this kind.
Mutation(id, kind) ==
    /\ watch.made < MaxMutations
    /\ LET w == [watch EXCEPT !.made = @ + 1, !.seen[id] = watch.now]
       IN watch' = queueIntentTimed(w, id, kind)

\* A timer is due and its callback runs.
TimerFires(t) ==
    /\ t \in watch.timers /\ t.at <= watch.now
    /\ watch' = flushIntentTimed([watch EXCEPT !.timers = @ \ {t}], t.id)

\* The clock goes on; a timer that is due fires first.
ClockTick ==
    /\ watch.now < MaxNow
    /\ \A t \in watch.timers : t.at > watch.now
    /\ watch' = [watch EXCEPT !.now = @ + 1]

WatcherStep ==
    \/ \E id \in Ids, kind \in {"upsert", "delete"} : Mutation(id, kind)
    \/ \E t \in watch.timers : TimerFires(t)
    \/ ClockTick

NextWatcher ==
    /\ WatcherStep
    /\ UNCHANGED <<rows, serverVars, clientVars, lifecycleVars, sse, idcheck, listed, muting, change, tried>>

SpecWatcher == Init /\ [][NextWatcher]_vars

TimersOf(id) == {t \in watch.timers : t.id = id}

\* One timer for each pending intent and none otherwise; a pending intent is
\* never older than debounceMs after the last mutation seen, nor than
\* maxWaitMs after it was first queued; the same holds for what was handed on.
C33_TimerState ==
    /\ \A id \in Ids :
          LET entry == watch.pending[id]
          IN IF entry.kind = "none" THEN TimersOf(id) = {}
             ELSE /\ Cardinality(TimersOf(id)) = 1
                  /\ \A t \in TimersOf(id) :
                        /\ t.timer = entry.timer
                        /\ t.at <= watch.seen[id] + DebounceTicks
                        /\ t.at <= entry.firstQueuedAt + MaxWaitTicks
                  /\ watch.now <= watch.seen[id] + DebounceTicks
                  /\ watch.now <= entry.firstQueuedAt + MaxWaitTicks
    /\ watch.handed.kind # "none" =>
          /\ watch.handed.at <= watch.handed.seen + DebounceTicks
          /\ watch.handed.at <= watch.handed.firstQueuedAt + MaxWaitTicks

\* The age of an intent starts with the intent and starts again only when
\* the kind flips; a timer that is due hands the intent on.
C33_TimerStep ==
    /\ \A id \in Ids :
          LET entry == watch.pending[id]
              after == watch'.pending[id]
          IN /\ (entry.kind # "none" /\ after.kind = entry.kind) =>
                    after.firstQueuedAt = entry.firstQueuedAt
             /\ (after.kind # "none" /\ after.kind # entry.kind) =>
                    after.firstQueuedAt = watch.now
    /\ \A t \in watch.timers :
          (t.at <= watch.now /\ t \notin watch'.timers /\ watch'.made = watch.made) =>
              /\ watch'.pending[t.id] = NoEntry
              /\ watch'.handed.id = t.id /\ watch'.handed.at = watch.now
              /\ watch'.handed.kind = watch.pending[t.id].kind

\* C33: a pending intent of the watcher is handed to the uploader no later
\* than debounceMs after the last mutation seen and, under mutations of one
\* kind that go on, no later than maxWaitMs after the intent was first
\* queued; the age starts again only when the kind flips; there is at most
\* one timer and one pending intent for an id.
C33_DebounceAndMaxWait == []C33_TimerState /\ [][C33_TimerStep]_vars

\* C33 witness: upserts of c1 kept coming, one per tick, and the intent was
\* handed on when maxWait ran out, one tick after the last mutation.
C33_Witness ==
    /\ watch.handed.id = "c1" /\ watch.handed.kind = "upsert"
    /\ watch.handed.at = watch.handed.firstQueuedAt + MaxWaitTicks
    /\ watch.handed.seen = watch.handed.at - 1
    /\ watch.pending["c1"] = NoEntry

\* ------------------------------------------------------------------------
\* What the watcher queues for a store change
\* ------------------------------------------------------------------------

\* The entries of c1 a store state may hold: none, a conversation with a
\* message, one with a title only, a placeholder empty, an incognito one.
StoreEntries ==
    {Undefined,
     DConversation("c1", <<"me">>, <<>>, <<>>, 5, FALSE),
     DConversation("c1", <<>>, <<"T">>, <<>>, 0, FALSE),
     DConversation("c1", <<>>, <<>>, <<>>, 0, FALSE),
     DConversation("c1", <<"me">>, <<"T">>, <<>>, 5, TRUE)}

\* The store changes from prev to next and the subscriber runs for c1, which
\* is muted or not and has a pending intent or none.
StoreChanges(prev, next, sameReference, muted, prior) ==
    /\ sameReference => (prev = next /\ prev # Undefined)
    /\ LET st == [Cur EXCEPT !.conversations["c1"] = next,
                             !.muteCountById["c1"] = IF muted THEN 1 ELSE 0,
                             !.pending["c1"] = prior,
                             !.latestById["c1"] = Undefined]
           after == handleStoreChangeOf(st, "c1", prev, next, sameReference)
       IN change' = [prev |-> prev, next |-> next, sameReference |-> sameReference,
                     muted |-> muted, prior |-> prior, pending |-> after.pending["c1"],
                     latest |-> after.latestById["c1"], called |-> TRUE]

NextChange ==
    /\ \E prev \in StoreEntries, next \in StoreEntries, sameReference \in BOOLEAN,
          muted \in BOOLEAN, prior \in {NoOp, "upsert", "delete"} :
          StoreChanges(prev, next, sameReference, muted, prior)
    /\ UNCHANGED <<rows, serverVars, clientVars, lifecycleVars, sse, idcheck, listed,
                   muting, watch, tried>>

SpecChange == Init /\ [][NextChange]_vars

\* Neither incognito nor a placeholder empty.
Syncable(c) ==
    /\ c # Undefined /\ ~c.isIncognito
    /\ (c.messages # <<>> \/ c.userTitle # <<>> \/ c.autoTitle # <<>>)

\* What the watcher is to queue for the change of an unmuted id.
ToQueue(prev, next, sameReference) ==
    IF prev # Undefined /\ next = Undefined
    THEN IF Syncable(prev) THEN "delete" ELSE NoOp
    ELSE IF prev = Undefined /\ next # Undefined
    THEN IF Syncable(next) THEN "upsert" ELSE NoOp
    ELSE IF prev = Undefined \/ sameReference THEN NoOp
    ELSE IF Syncable(next) THEN "upsert"
    ELSE IF Syncable(prev) THEN "delete"
    ELSE NoOp

\* C34: for a store change and an unmuted id the watcher queues a delete
\* exactly when the id left the store and was eligible, or stayed, changed
\* and lost its eligibility; an upsert exactly when the id is new or changed
\* and is eligible; nothing otherwise, and nothing when the object is the
\* same; an incognito conversation or a placeholder empty is never upserted.
C34_WatcherQueues ==
    change.called =>
        LET queue == IF change.muted THEN NoOp
                     ELSE ToQueue(change.prev, change.next, change.sameReference)
        IN /\ queue = "delete" => (change.pending = "delete" /\ change.latest = Undefined)
           /\ queue = "upsert" => (change.pending = "upsert" /\ change.latest = change.next)
           /\ queue = NoOp => (change.pending = change.prior /\ change.latest = Undefined)
           /\ change.latest # Undefined =>
                 /\ ~change.latest.isIncognito
                 /\ \/ change.latest.messages # <<>>
                    \/ change.latest.userTitle # <<>> \/ change.latest.autoTitle # <<>>

\* C34 witness: a conversation that was eligible became a placeholder empty
\* while an upsert of it was pending: the delete is queued in its place.
C34_Witness ==
    /\ change.called /\ ~change.muted /\ change.prior = "upsert"
    /\ change.prev # Undefined /\ change.prev.messages # <<>> /\ ~change.prev.isIncognito
    /\ change.next # Undefined /\ change.next.messages = <<>> /\ change.next.userTitle = <<>>
    /\ change.pending = "delete"

\* ------------------------------------------------------------------------
\* The last intent wins
\* ------------------------------------------------------------------------

\* A dirty delete has no buffered payload.
C35_DeleteHasNoPayload ==
    \A id \in Ids : dirtyOpById[id] = "delete" => pendingUpsertPayloadById[id] = Undefined

\* The watcher hands its intent for id to the uploader in this step.
HandsOver(id) ==
    /\ restarts' = restarts /\ ~stopped'
    /\ \/ pending[id] # NoOp /\ pending'[id] = NoOp /\ edits' = edits
       \/ /\ edits' # edits /\ pending[id] # NoOp /\ pending'[id] = NoOp
          /\ conversations'[id] # conversations[id]

\* The kind that is handed over: the pending one, which a change seen in the
\* same step has not flipped.
HandedKind(id) == pending[id]

\* queueDelete / queueUpsert of the uploader: the dirty op is the one queued
\* last, with the payload queued last or none.
C35_UploaderStep ==
    \A id \in Ids : HandsOver(id) =>
        IF HandedKind(id) = "delete"
        THEN dirtyOpById'[id] = "delete" /\ pendingUpsertPayloadById'[id] = Undefined
        ELSE /\ latestById'[id] # Undefined
             /\ dirtyOpById'[id] = "upsert"
             /\ pendingUpsertPayloadById'[id] = sanitizeConversationForSync(latestById'[id])

\* queueIntent of the watcher: the pending intent of an unmuted id is the
\* one of the change seen last.
C35_WatcherStep ==
    \A id \in Ids :
        (edits' # edits /\ ~stopped /\ ~isMuted(Cur, id)
            /\ conversations'[id] # conversations[id]) =>
            LET kind == ToQueue(conversations[id], conversations'[id], FALSE)
            IN kind # NoOp =>
                  /\ pending'[id] \in {kind, NoOp}
                  /\ pending'[id] = NoOp => (pending[id] = kind /\ dirtyOpById'[id] = kind)
                  /\ kind = "upsert" => latestById'[id] = conversations'[id]

\* C35: an id has one dirty intent, the one queued last: after queueDelete
\* the dirty op is delete and no payload is buffered, after queueUpsert it is
\* upsert with that payload buffered; a dirty delete never has a buffered
\* payload; the pending intent of the watcher is replaced the same way.
C35_LastIntentWins ==
    /\ []C35_DeleteHasNoPayload
    /\ [][C35_UploaderStep /\ C35_WatcherStep]_vars

\* C35 witness: the upsert of c1 is out with its payload; the delete queued
\* after it has replaced the dirty op and dropped the buffered payload.
C35_Witness ==
    /\ flush["c1"].pc = "sent" /\ flush["c1"].op = "upsert"
    /\ dirtyOpById["c1"] = "delete" /\ pendingUpsertPayloadById["c1"] = Undefined
    /\ pending["c1"] = NoOp /\ conversations["c1"] = Undefined

\* ------------------------------------------------------------------------
\* tryFlush without a buffered payload
\* ------------------------------------------------------------------------

\* tryFlush("c1") is called in a state of the uploader and the sync store.
TryFlushRuns(dirtyOp, transportMode, payload, busy, revision, lastError) ==
    LET st == [Cur EXCEPT !.dirtyOpById["c1"] = dirtyOp,
                          !.mode = transportMode,
                          !.pendingUpsertPayloadById["c1"] = payload,
                          !.remoteRevisionById["c1"] = revision,
                          !.lastErrorById["c1"] = lastError,
                          !.flush["c1"] = IF busy THEN [IdleCall EXCEPT !.pc = "sent"]
                                          ELSE IdleCall]
        after == tryFlush(st, "c1")
    IN tried' = [called |-> TRUE, dirtyOp |-> dirtyOp, mode |-> transportMode,
                 payload |-> payload, inFlight |-> busy, remoteRevision |-> revision,
                 lastError |-> lastError,
                 pc |-> IF after.flush["c1"] = st.flush["c1"] THEN "idle"
                        ELSE after.flush["c1"].pc,
                 op |-> IF after.flush["c1"] = st.flush["c1"] THEN NoOp
                        ELSE after.flush["c1"].op,
                 error |-> after.lastErrorById["c1"],
                 dirtyAfter |-> after.dirtyOpById["c1"],
                 revisionAfter |-> after.remoteRevisionById["c1"]]

NextTryFlush ==
    /\ \E dirtyOp \in {NoOp, "upsert", "delete"}, transportMode \in {"disabled", "http"},
          payload \in {Undefined, SyncConversation("c1", <<"me">>, <<>>, <<>>)},
          busy \in BOOLEAN, revision \in {NullRev} \cup 1..MaxRev,
          lastError \in {NoError, "error"} :
          TryFlushRuns(dirtyOp, transportMode, payload, busy, revision, lastError)
    /\ UNCHANGED <<rows, serverVars, clientVars, lifecycleVars, sse, idcheck, listed,
                   muting, watch, change>>

SpecTryFlush == Init /\ [][NextTryFlush]_vars

\* C36: tryFlush for an id with a dirty upsert, a live transport and no
\* buffered payload sends no request, records the error "missing upsert
\* payload", leaves dirtyOp[id] and remoteRevision[id] as they are and
\* leaves the id not in flight.
C36_MissingPayload ==
    (/\ tried.called /\ ~tried.inFlight
     /\ tried.dirtyOp = "upsert" /\ tried.mode = "http" /\ tried.payload = Undefined) =>
        /\ tried.pc = "idle" /\ tried.op = NoOp
        /\ tried.error = "missing upsert payload"
        /\ tried.dirtyAfter = "upsert"
        /\ tried.revisionAfter = tried.remoteRevision

\* C36 witness: tryFlush ran for the dirty upsert of c1 at revision 1 with
\* the transport live and nothing buffered.
C36_Witness ==
    /\ tried.called /\ ~tried.inFlight /\ tried.dirtyOp = "upsert" /\ tried.mode = "http"
    /\ tried.payload = Undefined /\ tried.remoteRevision = 1
    /\ tried.error = "missing upsert payload" /\ tried.pc = "idle"

\* ------------------------------------------------------------------------
\* An edit queued behind an upsert in flight
\* ------------------------------------------------------------------------

\* The uploader takes the acknowledgement of the upsert of id in this step.
TakesAck(id) ==
    /\ flush[id].pc = "replied" /\ flush[id].reply.kind = "ok"
    /\ flush[id].op = "upsert"
    /\ flush'[id] # flush[id]
    /\ restarts' = restarts /\ failures' = failures

\* queueUpsert was called with a newer payload while the upsert was out.
NewerQueued(id) ==
    /\ dirtyOpById[id] = "upsert"
    /\ pendingUpsertPayloadById[id] # Undefined
    /\ pendingUpsertPayloadById[id] # flush[id].data

\* C37: an upsert queued with a newer payload while an upsert of the id is
\* in flight is not dropped by the acknowledgement: after it the id is still
\* dirty with the newer payload buffered, or the newer payload has been sent.
C37_AckKeepsNewerEdit ==
    [][\A id \in Ids : (TakesAck(id) /\ NewerQueued(id)) =>
          \/ /\ dirtyOpById'[id] = "upsert"
             /\ pendingUpsertPayloadById'[id] = pendingUpsertPayloadById[id]
          \/ /\ flush'[id].pc = "sent"
             /\ flush'[id].data = pendingUpsertPayloadById[id]]_vars

\* The state the claim excludes: c1 is clean and nothing is pending or in
\* flight for it, the server holds the older payload and the local
\* conversation is the newer one.
C37_EditLeftBehind ==
    /\ dirtyOpById["c1"] = NoOp /\ pending["c1"] = NoOp /\ flush["c1"].pc = "idle"
    /\ micro.pc = "none" /\ pull.pc = "done" /\ drain.pc = "idle" /\ stream = <<>>
    /\ conversations["c1"] # Undefined
    /\ rows[<<Me, "c1">>].present /\ ~rows[<<Me, "c1">>].deleted
    /\ remoteRevisionById["c1"] = rows[<<Me, "c1">>].revision
    /\ rows[<<Me, "c1">>].data # sanitizeConversationForSync(conversations["c1"])
    /\ rows[<<Me, "c1">>].data.messages = <<"me">>
    /\ conversations["c1"].messages = <<"me", "me">>

\* ------------------------------------------------------------------------
\* A pending intent and a remote version applied under mute
\* ------------------------------------------------------------------------

\* The watcher holds a snapshot of id for a pending upsert, and the store
\* has since been given another state of id that the watcher did not see:
\* a remote version applied under mute.
SnapshotIsStale(id) ==
    /\ pending[id] = "upsert" /\ latestById[id] # Undefined
    /\ conversations[id] # latestById[id]
    /\ remoteRevisionById[id] # NullRev
    /\ remoteRevisionById[id] = rows[<<Me, id>>].revision
    /\ IF rows[<<Me, id>>].deleted THEN conversations[id] = Undefined
       ELSE /\ conversations[id] # Undefined
            /\ sanitizeConversationForSync(conversations[id]) = rows[<<Me, id>>].data

\* The debounce timer of id fires and its intent goes to the uploader.
DebounceFires(id) ==
    /\ pending[id] # NoOp /\ pending'[id] = NoOp
    /\ edits' = edits /\ restarts' = restarts

\* C38: when a remote version of id was applied under mute after the watcher
\* took its snapshot and before the debounce timer fires, the snapshot is not
\* sent with the revision of the applied version as baseRevision.
C38_StaleSnapshotNotSent ==
    [][\A id \in Ids : (SnapshotIsStale(id) /\ DebounceFires(id)) =>
          ~(/\ flush'[id].pc = "sent" /\ flush'[id] # flush[id]
            /\ flush'[id].op = "upsert"
            /\ flush'[id].data = sanitizeConversationForSync(latestById[id])
            /\ flush'[id].baseRevision = remoteRevisionById[id])]_vars

\* The write of the stale snapshot was accepted: the server's newest
\* revision of c1 holds the client's edit of an older revision, the store
\* holds the version of the other device, and the client is clean.
C38_RemoteOverwritten ==
    /\ flush["c1"].pc = "replied" /\ flush["c1"].reply.kind = "ok"
    /\ flush["c1"].op = "upsert" /\ flush["c1"].baseRevision >= 2
    /\ conversations["c1"] # Undefined
    /\ conversations["c1"].messages = <<"other">>
    /\ rows[<<Me, "c1">>].data = flush["c1"].data
    /\ flush["c1"].data.messages = <<"me", "me">>


(***************************************************************************)
(* C39: the revision the client records for a conversation.                *)
(* setRemoteRevision (store-chat-sync.ts:66-72) stores whatever revision   *)
(* its caller passes; the callers are the upload acknowledgement           *)
(* (part_015:104-108), the conflict resolver (part_014:164-170), the       *)
(* initial pull and the realtime apply (part_012:190-242).                 *)
(***************************************************************************)
RevOf(r) == IF r = NullRev THEN 0 ELSE r

ServerRevisionOf(id) ==
    IF <<Me, id>> \in DOMAIN rows THEN rows[<<Me, id>>].revision ELSE 0

RevisionLowered(id) ==
    /\ restarts' = restarts
    /\ RevOf(remoteRevisionById'[id]) < RevOf(remoteRevisionById[id])

\* C39 (first half): under Spec no step of a running client lowers
\* remoteRevision[id].
C39_RevisionNeverDecreases ==
    [][\A id \in Ids : ~RevisionLowered(id)]_vars

\* C39 (second half): remoteRevision[id] never exceeds the revision the
\* server holds for id.
C39_RevisionAtMostServer ==
    \A id \in Ids : RevOf(remoteRevisionById[id]) <= ServerRevisionOf(id)


(***************************************************************************)
(* C40: convergence.  The hypotheses of the claim are the specification    *)
(* SpecConverge: no request fails and the page is not reloaded, every      *)
(* write the server accepts while the client's stream is open puts its     *)
(* event on the stream, the numbers of edits and of writes of the other    *)
(* device are bounded, and every request, timer, continuation and          *)
(* delivered event is eventually handled.                                  *)
(***************************************************************************)
EventDelivered == (realtime /\ rows' # rows) => Len(stream') = Len(stream) + 1

FlushDelivered(id) == ServerHandlesFlush(id) /\ EventDelivered

OtherUpsertDelivered(id) == OtherUpserts(id) /\ EventDelivered

OtherDeleteDelivered(id) == OtherDeletes(id) /\ EventDelivered

WriterStep ==
    \/ \E id \in UserIds : LocalCreate(id)
    \/ \E id \in UserIds : LocalEdit(id)
    \/ \E id \in UserIds : LocalDelete(id)
    \/ \E id \in UserIds : LocalClear(id)
    \/ \E id \in UserIds : OtherUpsertDelivered(id)
    \/ \E id \in UserIds : OtherDeleteDelivered(id)

SyncStep ==
    \/ \E id \in Ids : WatcherTimer(id)
    \/ \E id \in Ids : FlushDelivered(id)
    \/ \E id \in Ids : ServerHandlesResolverGet(id)
    \/ ServerHandlesList
    \/ ServerHandlesPullGet
    \/ ServerHandlesDrainGet
    \/ \E id \in Ids : FlushAcked(id)
    \/ \E id \in Ids : FlushConflicted(id)
    \/ \E id \in Ids : ResolverCopies(id)
    \/ ResolverCopyDone
    \/ \E id \in Ids : ResolverRestores(id)
    \/ ResolverApplyDone
    \/ ListArrives
    \/ PullGetArrives
    \/ PullApplyDone
    \/ EsMessage
    \/ DrainLoop
    \/ DrainGetArrives
    \/ DrainApplyDone

NextConverge == WriterStep \/ SyncStep

ConvergeFairness == WF_vars(SyncStep)

SpecConverge == Init /\ [][NextConverge]_vars /\ ConvergeFairness

Converged(id) ==
    LET row == rows[<<Me, id>>]
    IN /\ dirtyOpById[id] = NoOp
       /\ RevOf(remoteRevisionById[id]) = row.revision
       /\ IF ~row.present \/ row.deleted THEN conversations[id] = Undefined
          ELSE /\ conversations[id] # Undefined
               /\ sanitizeConversationForSync(conversations[id]) = row.data

AllConverged == \A id \in UserIds : Converged(id)

\* C40: under SpecConverge the client is eventually, and from then on,
\* converged on every id: no dirtyOp, remoteRevision equal to the server's
\* revision, the local conversation equal to the server's blob (absent
\* locally when the row is a tombstone).
C40_Converges == <>[]AllConverged

\* Nothing is left to do: no request, timer, continuation or event waits.
Quiescent == realtime /\ ~ENABLED SyncStep

\* A state in which the client has nothing left to do and holds a clean
\* conversation that is behind the server.
C40_QuietAndBehind ==
    /\ Quiescent
    /\ \E id \in UserIds :
         /\ dirtyOpById[id] = NoOp
         /\ RevOf(remoteRevisionById[id]) < rows[<<Me, id>>].revision

====
